---- MODULE Spec2Model ----
(***************************************************************************)
(* A model of the metadata normalisation engine of mtl-archives-search:    *)
(* pipelines/etl/clean_metadata.py (text cleaning, photo-series parsing,   *)
(* description resolution, record enrichment, the run over a manifest),    *)
(* pipelines/etl/normalize_dates.py (date parsing and the date pass) and   *)
(* pipelines/etl/audit_metadata_quality.py (language label, field          *)
(* coverage, issue log, duplicate descriptions).                           *)
(*                                                                         *)
(* Text is a sequence of characters.  A character is a one-letter string;  *)
(* a code point outside ASCII is written by name ("e_acute" is U+00E9,     *)
(* "rsquo" U+2019, "ndash" U+2013, "mdash" U+2014, "I_dot" U+0130,         *)
(* "comb_dot" U+0307, "comb_acute" U+0301).  Python's None is the value    *)
(* None below, which is distinct from every text.                          *)
(*                                                                         *)
(* The sections on characters, regular expressions and records give the    *)
(* semantics of Python's str, re, unicodedata, int and dict that the code  *)
(* relies on; the other sections follow the code of the repository, with   *)
(* audit_metadata_quality.py for the language label of a description and   *)
(* pipelines/vlm/caption_images.py for is_real_name.                       *)
(***************************************************************************)
EXTENDS Integers, Sequences, FiniteSets, TLC

VARIABLES
  ct,   \* clean_text applied once and twice to one value
  pd,   \* parse_date applied to one date string
  nd,   \* the date pass of normalize_dates.main over a list of records
  er,   \* enrich_record applied to one raw record
  ps,   \* parse_photo_series applied to one description
  lg,   \* detect_language_label applied to one text
  cm,   \* a run of clean_metadata.main over an input manifest
  au    \* a run of audit_metadata_quality.main over an input manifest

vars == <<ct, pd, nd, er, ps, lg, cm, au>>

\* The value of a variable that the specification at hand does not use.
Idle == [pc |-> "idle"]

None == <<"<None>">>

Min(a, b) == IF a <= b THEN a ELSE b

Max(a, b) == IF a >= b THEN a ELSE b

-----------------------------------------------------------------------------
(* Characters: classes and case mappings (Python str and re semantics).    *)

DIGITS == {"0", "1", "2", "3", "4", "5", "6", "7", "8", "9"}

\* \s of re and str.isspace(), on the characters the model uses
WHITESPACE == {" ", "\n", "\t"}

\* the simple (one to one) lower-case mapping, which re.IGNORECASE uses
LOWER_MAP ==
  [A |-> "a", B |-> "b", C |-> "c", D |-> "d", E |-> "e", F |-> "f", G |-> "g",
   H |-> "h", I |-> "i", J |-> "j", K |-> "k", L |-> "l", M |-> "m", N |-> "n",
   O |-> "o", P |-> "p", Q |-> "q", R |-> "r", S |-> "s", T |-> "t", U |-> "u",
   V |-> "v", W |-> "w", X |-> "x", Y |-> "y", Z |-> "z",
   E_acute |-> "e_acute", A_circ |-> "a_circ", U_circ |-> "u_circ",
   O_circ |-> "o_circ", E_grave |-> "e_grave", A_grave |-> "a_grave",
   C_cedil |-> "c_cedil", I_dot |-> "i"]

UPPER_MAP ==
  [a |-> "A", b |-> "B", c |-> "C", d |-> "D", e |-> "E", f |-> "F", g |-> "G",
   h |-> "H", i |-> "I", j |-> "J", k |-> "K", l |-> "L", m |-> "M", n |-> "N",
   o |-> "O", p |-> "P", q |-> "Q", r |-> "R", s |-> "S", t |-> "T", u |-> "U",
   v |-> "V", w |-> "W", x |-> "X", y |-> "Y", z |-> "Z",
   e_acute |-> "E_acute", a_circ |-> "A_circ", u_circ |-> "U_circ",
   o_circ |-> "O_circ", e_grave |-> "E_grave", a_grave |-> "A_grave",
   c_cedil |-> "C_cedil"]

SimpleLower(c) == IF c \in DOMAIN LOWER_MAP THEN LOWER_MAP[c] ELSE c

SimpleUpper(c) == IF c \in DOMAIN UPPER_MAP THEN UPPER_MAP[c] ELSE c

\* str.lower() of one character: U+0130 lower-cases to two code points
LowerChar(c) == IF c = "I_dot" THEN <<"i", "comb_dot">> ELSE <<SimpleLower(c)>>

\* str.upper() of one character
UpperChar(c) == <<SimpleUpper(c)>>

\* str.lower(), character by character (the text is halved to keep the
\* evaluation shallow)
RECURSIVE Lower(_)
Lower(text) ==
  IF Len(text) = 0 THEN <<>>
  ELSE IF Len(text) = 1 THEN LowerChar(text[1])
  ELSE LET h == Len(text) \div 2
       IN  Lower(SubSeq(text, 1, h)) \o Lower(SubSeq(text, h + 1, Len(text)))

\* str.upper()
RECURSIVE Upper(_)
Upper(text) ==
  IF Len(text) = 0 THEN <<>>
  ELSE IF Len(text) = 1 THEN UpperChar(text[1])
  ELSE LET h == Len(text) \div 2
       IN  Upper(SubSeq(text, 1, h)) \o Upper(SubSeq(text, h + 1, Len(text)))

\* text without the elements marked Dropped
Dropped == "<dropped>"

Kept(marked) == SelectSeq(marked, LAMBDA c : c # Dropped)

\* needle in haystack, for str
Contains(haystack, needle) ==
  \E i \in 1..(Len(haystack) - Len(needle) + 1) :
    SubSeq(haystack, i, i + Len(needle) - 1) = needle

\* the least element of a non-empty set of integers
Least(S) == CHOOSE i \in S : \A j \in S : i <= j

\* str.strip()
Strip(text) ==
  LET solid == {k \in 1..Len(text) : text[k] \notin WHITESPACE}
  IN  IF solid = {} THEN <<>>
      ELSE SubSeq(text, Least(solid), CHOOSE i \in solid : \A j \in solid : i >= j)

\* str.rstrip('.')
RStripDots(text) ==
  LET solid == {k \in 1..Len(text) : text[k] # "."}
  IN  IF solid = {} THEN <<>>
      ELSE SubSeq(text, 1, CHOOSE i \in solid : \A j \in solid : i >= j)

-----------------------------------------------------------------------------
(* Regular expressions, as the re module matches them.  A pattern is a     *)
(* sequence of items, matched left to right by backtracking:               *)
(*   [t |-> "cls", cls, min, max, greedy]  a character class, repeated     *)
(*   [t |-> "not", cls, min, max, greedy]  a negated class, repeated       *)
(*   [t |-> "any", min, max, greedy]       . under DOTALL, repeated        *)
(*   [t |-> "alt", alts]                   literals, in order of preference *)
(*   [t |-> "end"]                         $                               *)
(* max = -1 is no upper limit.  ic is re.IGNORECASE.  A match is the       *)
(* sequence of the lengths the items took; item k is group k.              *)

NoMatch == <<-1>>

Cls(set, lo, hi) == [t |-> "cls", cls |-> set, min |-> lo, max |-> hi, greedy |-> TRUE]

NotCls(set, lo, hi, g) == [t |-> "not", cls |-> set, min |-> lo, max |-> hi, greedy |-> g]

AnyChar(lo, hi) == [t |-> "any", cls |-> {}, min |-> lo, max |-> hi, greedy |-> TRUE]

Alt(literals) == [t |-> "alt", alts |-> literals]

Lit(literal) == Alt(<<literal>>)

Opt(literals) == Alt(literals \o << <<>> >>)

EndAnchor == [t |-> "end"]

CharEq(a, b, ic) == a = b \/ (ic /\ SimpleLower(a) = SimpleLower(b))

ClassHas(item, c, ic) ==
  CASE item.t = "cls" ->
         \/ c \in item.cls
         \/ ic /\ (SimpleLower(c) \in item.cls \/ SimpleUpper(c) \in item.cls)
    [] item.t = "not" -> c \notin item.cls
    [] OTHER -> TRUE

LitAt(s, i, literal, ic) ==
  /\ i + Len(literal) - 1 <= Len(s)
  /\ \A k \in 1..Len(literal) : CharEq(s[i + k - 1], literal[k], ic)

\* how many characters from position i on are in the class of item, up to cap
RunLen(s, i, item, ic, cap) ==
  LET last == IF cap < 0 THEN Len(s) ELSE Min(Len(s), i + cap - 1)
      stop(j) == j > last \/ ~ClassHas(item, s[j], ic)
  IN  (CHOOSE j \in i..(last + 1) : stop(j) /\ \A h \in i..(j - 1) : ~stop(h)) - i

\* the lengths item may take at position i, most preferred first
Cands(s, i, item, ic) ==
  CASE item.t = "alt" ->
         LET ok == SelectSeq(item.alts, LAMBDA a : LitAt(s, i, a, ic))
         IN  [k \in 1..Len(ok) |-> Len(ok[k])]
    [] item.t = "end" ->
         IF i = Len(s) + 1 \/ (i = Len(s) /\ s[i] = "\n") THEN <<0>> ELSE <<>>
    [] OTHER ->
         LET run == RunLen(s, i, item, ic, item.max)
             n   == run - item.min + 1
         IN  IF n <= 0 THEN <<>>
             ELSE IF item.greedy THEN [k \in 1..n |-> run - k + 1]
             ELSE [k \in 1..n |-> item.min + k - 1]

RECURSIVE MatchFrom(_, _, _, _, _)
RECURSIVE TryLens(_, _, _, _, _, _)
RECURSIVE TryRest(_, _, _, _, _, _, _)
MatchFrom(s, i, pat, ic, k) ==
  IF k > Len(pat) THEN <<>>
  ELSE TryLens(s, i, pat, ic, k, Cands(s, i, pat[k], ic))

TryLens(s, i, pat, ic, k, cands) ==
  IF Len(cands) = 0 THEN NoMatch
  ELSE TryRest(s, i, pat, ic, k, cands, MatchFrom(s, i + cands[1], pat, ic, k + 1))

TryRest(s, i, pat, ic, k, cands, r) ==
  IF r # NoMatch THEN <<cands[1]>> \o r ELSE TryLens(s, i, pat, ic, k, Tail(cands))

\* re.match: the match at the start of s, or NoMatch
ReMatch(pat, s, ic) == MatchFrom(s, 1, pat, ic, 1)

RECURSIVE SumLens(_, _)
SumLens(lens, k) == IF k = 0 THEN 0 ELSE lens[k] + SumLens(lens, k - 1)

\* group k of the match lens that starts at position at
Group(s, at, lens, k) ==
  LET from == at + SumLens(lens, k - 1) IN SubSeq(s, from, from + lens[k] - 1)

\* the positions from i on where the pattern matches
Hits(pat, s, ic, i) ==
  {k \in i..(Len(s) + 1) : MatchFrom(s, k, pat, ic, 1) # NoMatch}

\* re.search from position i on: [at, lens], at = 0 when there is no match
SearchIn(pat, s, ic, hits) ==
  IF hits = {} THEN [at |-> 0, lens |-> <<>>]
  ELSE [at |-> Least(hits), lens |-> MatchFrom(s, Least(hits), pat, ic, 1)]

SearchFrom(pat, s, ic, i) == SearchIn(pat, s, ic, Hits(pat, s, ic, i))

ReSearch(pat, s, ic) == SearchFrom(pat, s, ic, 1)

\* re.findall: the matches left to right, each starting where the last ended
\* (one position further after an empty match)
RECURSIVE FindAllFrom(_, _, _, _, _)
FindAllAt(pat, s, ic, hits, k, lens) ==
  <<[at |-> k, lens |-> lens]>>
  \o FindAllFrom(pat, s, ic, hits, k + Max(SumLens(lens, Len(lens)), 1))

FindAllStep(pat, s, ic, hits, later) ==
  IF later = {} THEN <<>>
  ELSE FindAllAt(pat, s, ic, hits, Least(later),
                 MatchFrom(s, Least(later), pat, ic, 1))

FindAllFrom(pat, s, ic, hits, i) ==
  FindAllStep(pat, s, ic, hits, {k \in hits : k >= i})

ReFindAll(pat, s, ic) == FindAllFrom(pat, s, ic, Hits(pat, s, ic, 1), 1)

-----------------------------------------------------------------------------
(* clean_metadata.py: clean_text                                           *)

SANS_OBJET_PREFIX ==
  <<"S", "a", "n", "s", " ", "o", "b", "j", "e", "t", " ", "(", "a", "u",
    "c", "u", "n", "e", " ", "d", "e", "s", "c", "r", "i", "p", "t", "i",
    "o", "n", " ", "f", "o", "u", "r", "n", "i", "e", ")", ".">>

\* unicodedata.normalize("NFC", text): canonical composition
COMPOSITIONS ==
  {<<"e", "comb_acute", "e_acute">>, <<"E", "comb_acute", "E_acute">>,
   <<"I", "comb_dot", "I_dot">>}

NFC(text) ==
  LET pair(k) == {c \in COMPOSITIONS : k >= 1 /\ k < Len(text)
                                          /\ c[1] = text[k] /\ c[2] = text[k + 1]}
  IN  Kept([k \in 1..Len(text) |->
              IF pair(k) # {} THEN (CHOOSE c \in pair(k) : TRUE)[3]
              ELSE IF pair(k - 1) # {} THEN Dropped
              ELSE text[k]])

\* .replace("’", "'").replace("–", "-").replace("—", "-")
ReplaceTypographic(text) ==
  [k \in 1..Len(text) |->
     CASE text[k] = "rsquo" -> "'"
       [] text[k] \in {"ndash", "mdash"} -> "-"
       [] OTHER -> text[k]]

\* re.sub(r"\s+", " ", text)
CollapseWhitespace(text) ==
  Kept([k \in 1..Len(text) |->
          IF text[k] \notin WHITESPACE THEN text[k]
          ELSE IF k > 1 /\ text[k - 1] \in WHITESPACE THEN Dropped
          ELSE " "])

\* r"^Sans objet \(aucune description fournie\)\.\s*"
SANS_OBJET_PATTERN == <<Lit(SANS_OBJET_PREFIX), Cls(WHITESPACE, 0, -1)>>

\* the text after the match m at its start, or all of it when m is NoMatch
AfterMatch(text, m) ==
  IF m = NoMatch THEN text ELSE SubSeq(text, 1 + SumLens(m, Len(m)), Len(text))

\* re.sub(SANS_OBJET_PATTERN, "", text, flags=re.IGNORECASE)
RemoveSansObjet(text) == AfterMatch(text, ReMatch(SANS_OBJET_PATTERN, text, TRUE))

clean_text(value) ==
  IF value = None THEN <<>>
  ELSE Strip(RemoveSansObjet(CollapseWhitespace(ReplaceTypographic(NFC(value)))))

-----------------------------------------------------------------------------
(* normalize_dates.py: normalize_year and parse_date                       *)

DIGIT_CHARS == <<"0", "1", "2", "3", "4", "5", "6", "7", "8", "9">>

DigitValue(c) == (CHOOSE k \in 1..10 : DIGIT_CHARS[k] = c) - 1

\* int(text) of a non-empty run of digits
RECURSIVE ToInt(_)
ToInt(digits) ==
  IF Len(digits) = 0 THEN 0
  ELSE 10 * ToInt(SubSeq(digits, 1, Len(digits) - 1)) + DigitValue(digits[Len(digits)])

\* str(n) of a natural number
RECURSIVE ToStr(_)
ToStr(n) ==
  IF n < 10 THEN <<DIGIT_CHARS[n + 1]>>
  ELSE ToStr(n \div 10) \o <<DIGIT_CHARS[(n % 10) + 1]>>

\* FRENCH_MONTHS, as <<name, number>> pairs
FRENCH_MONTHS ==
  {<<<<"j", "a", "n", "v", "i", "e", "r">>, <<"0", "1">>>>,
   <<<<"j", "a", "n">>, <<"0", "1">>>>,
   <<<<"j", "a", "n", "v">>, <<"0", "1">>>>,
   <<<<"f", "e_acute", "v", "r", "i", "e", "r">>, <<"0", "2">>>>,
   <<<<"f", "e", "v", "r", "i", "e", "r">>, <<"0", "2">>>>,
   <<<<"f", "e_acute", "v">>, <<"0", "2">>>>,
   <<<<"f", "e", "v">>, <<"0", "2">>>>,
   <<<<"m", "a", "r", "s">>, <<"0", "3">>>>,
   <<<<"m", "a", "r">>, <<"0", "3">>>>,
   <<<<"a", "v", "r", "i", "l">>, <<"0", "4">>>>,
   <<<<"a", "v", "r">>, <<"0", "4">>>>,
   <<<<"m", "a", "i">>, <<"0", "5">>>>,
   <<<<"j", "u", "i", "n">>, <<"0", "6">>>>,
   <<<<"j", "u", "n">>, <<"0", "6">>>>,
   <<<<"j", "u", "i", "l", "l", "e", "t">>, <<"0", "7">>>>,
   <<<<"j", "u", "i", "l">>, <<"0", "7">>>>,
   <<<<"j", "u", "l">>, <<"0", "7">>>>,
   <<<<"a", "o", "u_circ", "t">>, <<"0", "8">>>>,
   <<<<"a", "o", "u", "t">>, <<"0", "8">>>>,
   <<<<"a", "o", "u_circ">>, <<"0", "8">>>>,
   <<<<"s", "e", "p", "t", "e", "m", "b", "r", "e">>, <<"0", "9">>>>,
   <<<<"s", "e", "p", "t">>, <<"0", "9">>>>,
   <<<<"s", "e", "p">>, <<"0", "9">>>>,
   <<<<"o", "c", "t", "o", "b", "r", "e">>, <<"1", "0">>>>,
   <<<<"o", "c", "t">>, <<"1", "0">>>>,
   <<<<"n", "o", "v", "e", "m", "b", "r", "e">>, <<"1", "1">>>>,
   <<<<"n", "o", "v">>, <<"1", "1">>>>,
   <<<<"d", "e_acute", "c", "e", "m", "b", "r", "e">>, <<"1", "2">>>>,
   <<<<"d", "e", "c", "e", "m", "b", "r", "e">>, <<"1", "2">>>>,
   <<<<"d", "e_acute", "c">>, <<"1", "2">>>>,
   <<<<"d", "e", "c">>, <<"1", "2">>>>}

\* FRENCH_MONTHS.get(name): the month's number, or None
FrenchMonth(name) ==
  IF \E p \in FRENCH_MONTHS : p[1] = name
    THEN (CHOOSE p \in FRENCH_MONTHS : p[1] = name)[2]
    ELSE None

\* if 1800 <= year <= 2100: return str(year)
YearInRangeOrNone(year) == IF 1800 <= year /\ year <= 2100 THEN ToStr(year) ELSE None

\* the conversion with the pivot that date libraries apply to years of two
\* digits: below 30 the year is taken for one of the 2000s
FullYearWithPivot(n) ==
  IF n < 30 THEN 2000 + n ELSE IF n < 100 THEN 1900 + n ELSE n

\* year = int(year_str); if year < 100: year = 1900 + year
FullYear(n) == IF n < 100 THEN 1900 + n ELSE n

NormalizeStripped(text) ==
  IF Len(text) = 0 THEN None
  ELSE IF \E k \in 1..Len(text) : text[k] \notin DIGITS THEN None
  ELSE YearInRangeOrNone(FullYear(ToInt(text)))

normalize_year(year_str) == NormalizeStripped(Strip(year_str))

\* [a-zéûô]
MONTH_LETTERS ==
  {"a", "b", "c", "d", "e", "f", "g", "h", "i", "j", "k", "l", "m", "n", "o",
   "p", "q", "r", "s", "t", "u", "v", "w", "x", "y", "z",
   "e_acute", "u_circ", "o_circ"}

DASHES == {"-", "ndash"}

\* r'[Dd]écennie\s+(\d{4})'
DECADE_PATTERN ==
  <<Cls({"D", "d"}, 1, 1), Lit(<<"e_acute", "c", "e", "n", "n", "i", "e">>),
    Cls(WHITESPACE, 1, -1), Cls(DIGITS, 4, 4)>>

\* r'^(\d{4})\s*[-–]\s*(\d{4})$'
RANGE_PATTERN ==
  <<Cls(DIGITS, 4, 4), Cls(WHITESPACE, 0, -1), Cls(DASHES, 1, 1),
    Cls(WHITESPACE, 0, -1), Cls(DIGITS, 4, 4), EndAnchor>>

\* r'^(\d{4})\s*[-–]\s*(\d{2,4})$'
RANGE2_PATTERN ==
  <<Cls(DIGITS, 4, 4), Cls(WHITESPACE, 0, -1), Cls(DASHES, 1, 1),
    Cls(WHITESPACE, 0, -1), Cls(DIGITS, 2, 4), EndAnchor>>

\* r'^(\d{4})$'
YEAR_PATTERN == <<Cls(DIGITS, 4, 4), EndAnchor>>

\* r'^(\d{1,2})[-\s]([a-zéûô]+)\.?[-\s](\d{2,4})$'
FRENCH_DMY_PATTERN ==
  <<Cls(DIGITS, 1, 2), Cls({"-"} \cup WHITESPACE, 1, 1), Cls(MONTH_LETTERS, 1, -1),
    Cls({"."}, 0, 1), Cls({"-"} \cup WHITESPACE, 1, 1), Cls(DIGITS, 2, 4), EndAnchor>>

\* r'^(\d{1,2})(?:er|e|ème)?\s+([a-zéûô]+)\s+(\d{4})$'
FRENCH_FULL_PATTERN ==
  <<Cls(DIGITS, 1, 2), Opt(<<<<"e", "r">>, <<"e">>, <<"e_grave", "m", "e">>>>),
    Cls(WHITESPACE, 1, -1), Cls(MONTH_LETTERS, 1, -1), Cls(WHITESPACE, 1, -1),
    Cls(DIGITS, 4, 4), EndAnchor>>

\* r'^([a-zéûô]+)\s+(\d{4})$'
MONTH_YEAR_PATTERN ==
  <<Cls(MONTH_LETTERS, 1, -1), Cls(WHITESPACE, 1, -1), Cls(DIGITS, 4, 4), EndAnchor>>

\* r'[-–]\s*(\d{1,2})\s+([a-zéûô]+)\s+(\d{4})\s*$'
END_DATE_PATTERN ==
  <<Cls(DASHES, 1, 1), Cls(WHITESPACE, 0, -1), Cls(DIGITS, 1, 2),
    Cls(WHITESPACE, 1, -1), Cls(MONTH_LETTERS, 1, -1), Cls(WHITESPACE, 1, -1),
    Cls(DIGITS, 4, 4), Cls(WHITESPACE, 0, -1), EndAnchor>>

\* r'^([a-zéûô]+)\.?[-\s](\d{2})$'
ABBREV_MONTH_YEAR_PATTERN ==
  <<Cls(MONTH_LETTERS, 1, -1), Cls({"."}, 0, 1), Cls({"-"} \cup WHITESPACE, 1, 1),
    Cls(DIGITS, 2, 2), EndAnchor>>

\* r'(\d{4})'
YEAR_ANYWHERE_PATTERN == <<Cls(DIGITS, 4, 4)>>

\* The stages of parse_date: each gives the value its pattern returns, or
\* FallThrough when the function goes on to the following pattern.
FallThrough == <<"<next>">>

OrElse(result, rest) == IF result # FallThrough THEN result ELSE rest

DecadeResult(s, m) ==
  IF m # NoMatch THEN Group(s, 1, m, 4) \o <<"s">> ELSE FallThrough

RangeResult(s, m) ==
  IF m # NoMatch THEN Group(s, 1, m, 1) \o <<"-">> \o Group(s, 1, m, 5)
  ELSE FallThrough

\* end = start[:2] + end, when end has two digits
Range2End(start, end) == IF Len(end) = 2 THEN SubSeq(start, 1, 2) \o end ELSE end

Range2Result(s, m) ==
  IF m # NoMatch
    THEN Group(s, 1, m, 1) \o <<"-">> \o Range2End(Group(s, 1, m, 1), Group(s, 1, m, 5))
    ELSE FallThrough

YearResult(s, m) == IF m # NoMatch THEN Group(s, 1, m, 1) ELSE FallThrough

\* if month and year: return year
MonthAndYear(month, year) ==
  IF month # None /\ year # None THEN year ELSE FallThrough

FrenchDmyResult(s, m) ==
  IF m # NoMatch
    THEN MonthAndYear(FrenchMonth(RStripDots(Lower(Group(s, 1, m, 3)))),
                      normalize_year(Group(s, 1, m, 6)))
    ELSE FallThrough

FrenchFullResult(s, m) == IF m # NoMatch THEN Group(s, 1, m, 6) ELSE FallThrough

MonthYearResult(s, m) == IF m # NoMatch THEN Group(s, 1, m, 3) ELSE FallThrough

EndDateResult(s, m) ==
  IF m.at # 0 THEN Group(s, m.at, m.lens, 7) ELSE FallThrough

\* if year: return year
YearOrNext(year) == IF year # None THEN year ELSE FallThrough

AbbrevMonthYearResult(s, m) ==
  IF m # NoMatch THEN YearOrNext(normalize_year(Group(s, 1, m, 4))) ELSE FallThrough

YearAnywhereResult(s, m) ==
  IF m.at # 0 THEN YearInRangeOrNone(ToInt(Group(s, m.at, m.lens, 1))) ELSE None

\* the stages in the order of the code: the first that returns decides
ParseStripped(s) ==
  OrElse(DecadeResult(s, ReMatch(DECADE_PATTERN, s, FALSE)),
  OrElse(RangeResult(s, ReMatch(RANGE_PATTERN, s, FALSE)),
  OrElse(Range2Result(s, ReMatch(RANGE2_PATTERN, s, FALSE)),
  OrElse(YearResult(s, ReMatch(YEAR_PATTERN, s, FALSE)),
  OrElse(FrenchDmyResult(s, ReMatch(FRENCH_DMY_PATTERN, s, TRUE)),
  OrElse(FrenchFullResult(s, ReMatch(FRENCH_FULL_PATTERN, s, TRUE)),
  OrElse(MonthYearResult(s, ReMatch(MONTH_YEAR_PATTERN, s, TRUE)),
  OrElse(EndDateResult(s, ReSearch(END_DATE_PATTERN, s, TRUE)),
  OrElse(AbbrevMonthYearResult(s, ReMatch(ABBREV_MONTH_YEAR_PATTERN, s, TRUE)),
         YearAnywhereResult(s, ReSearch(YEAR_ANYWHERE_PATTERN, s, FALSE)))))))))))

parse_date(date_str) ==
  IF date_str = None \/ Len(date_str) = 0 THEN None
  ELSE ParseStripped(Strip(date_str))

-----------------------------------------------------------------------------
(* clean_metadata.py: extract_image_from_filename and parse_photo_series   *)

\* the image number of a file name that holds none
NoImageNum == -1

\* r'image[_-](\d+)'
IMAGE_NUM_PATTERN ==
  <<Lit(<<"i", "m", "a", "g", "e">>), Cls({"_", "-"}, 1, 1), Cls(DIGITS, 1, -1)>>

\* r'_(\d+)\.(jpg|jpeg|png|tif|tiff)$'
FILE_NUM_PATTERN ==
  <<Lit(<<"_">>), Cls(DIGITS, 1, -1), Lit(<<".">>),
    Alt(<<<<"j", "p", "g">>, <<"j", "p", "e", "g">>, <<"p", "n", "g">>, <<"t",
        "i", "f">>, <<"t", "i", "f", "f">>>>),
    EndAnchor>>

FileNum(filename, m) ==
  IF m.at # 0 THEN ToInt(Group(filename, m.at, m.lens, 2)) ELSE NoImageNum

ImageNum(filename, m) ==
  IF m.at # 0 THEN ToInt(Group(filename, m.at, m.lens, 3))
  ELSE FileNum(filename, ReSearch(FILE_NUM_PATTERN, filename, TRUE))

extract_image_from_filename(filename) ==
  ImageNum(filename, ReSearch(IMAGE_NUM_PATTERN, filename, TRUE))

PHOTO_SERIES_HEADER ==
  <<"L", "e", " ", "r", "e", "p", "o", "r", "t", "a", "g", "e", " ", "p",
    "h", "o", "t", "o", "g", "r", "a", "p", "h", "i", "q", "u", "e", " ",
    "c", "o", "m", "p", "r", "e", "n", "d", " ", "l", "e", "s", " ", "l",
    "i", "e", "u", "x", " ", "e", "t", " ", "b", "a_circ", "t", "i", "m",
    "e", "n", "t", "s", " ", "s", "u", "i", "v", "a", "n", "t", "s">>

\* PHOTO_SERIES_PATTERN (re.IGNORECASE | re.DOTALL): the header, \s*:?\s*(.+)
PHOTO_SERIES_PATTERN ==
  <<Lit(PHOTO_SERIES_HEADER), Cls(WHITESPACE, 0, -1), Cls({":"}, 0, 1),
    Cls(WHITESPACE, 0, -1), AnyChar(1, -1)>>

\* r'([^(]+?)\s*\((?:image|images)\s*([\d\s,-]+)\)': group 1 is the location,
\* group 6 the image numbers
SERIES_ENTRY_PATTERN ==
  <<NotCls({"("}, 1, -1, FALSE), Cls(WHITESPACE, 0, -1), Lit(<<"(">>),
    Alt(<<<<"i", "m", "a", "g", "e">>, <<"i", "m", "a", "g", "e",
        "s">>>>), Cls(WHITESPACE, 0, -1),
    Cls(DIGITS \cup WHITESPACE \cup {",", "-"}, 1, -1), Lit(<<")">>)>>

\* r'\d+'
NUMBER_PATTERN == <<Cls(DIGITS, 1, -1)>>

\* r'(\d+)\s*-\s*(\d+)'
NUMBER_RANGE_PATTERN ==
  <<Cls(DIGITS, 1, -1), Cls(WHITESPACE, 0, -1), Lit(<<"-">>),
    Cls(WHITESPACE, 0, -1), Cls(DIGITS, 1, -1)>>

\* image_num in numbers, for the numbers and ranges found in image_range
InFound(image_range, image_num, singles, ranges) ==
  \/ \E k \in 1..Len(singles) :
       ToInt(Group(image_range, singles[k].at, singles[k].lens, 1)) = image_num
  \/ \E k \in 1..Len(ranges) :
       /\ ToInt(Group(image_range, ranges[k].at, ranges[k].lens, 1)) <= image_num
       /\ image_num <= ToInt(Group(image_range, ranges[k].at, ranges[k].lens, 5))

InImageRange(image_range, image_num) ==
  InFound(image_range, image_num,
          ReFindAll(NUMBER_PATTERN, image_range, FALSE),
          ReFindAll(NUMBER_RANGE_PATTERN, image_range, FALSE))

\* location.strip() and image_range of entry k
EntryLocation(content, entries, k) ==
  Strip(Group(content, entries[k].at, entries[k].lens, 1))

EntryRange(content, entries, k) == Group(content, entries[k].at, entries[k].lens, 6)

\* s.join(items)
RECURSIVE Join(_, _)
Join(items, sep) ==
  IF Len(items) = 0 THEN <<>>
  ELSE IF Len(items) = 1 THEN items[1]
  ELSE items[1] \o sep \o Join(Tail(items), sep)

\* content[:n]
Prefix(text, n) == SubSeq(text, 1, Min(n, Len(text)))

ELLIPSIS == <<".", ".", ".">>

\* the summary of all locations, for a record with no image number
SeriesSummary(content, entries) ==
  IF Len(entries) > 0
    THEN <<"R", "e", "p", "o", "r", "t", "a", "g", "e", " ", "p", "h", "o",
        "t", "o", "g", "r", "a", "p", "h", "i", "q", "u", "e", ":", " ">>
         \o Join(Prefix(SelectSeq([k \in 1..Len(entries) |->
                                     EntryLocation(content, entries, k)],
                                  LAMBDA loc : Len(loc) > 0), 5),
                 <<";", " ">>)
         \o <<".">>
    ELSE Strip(Prefix(content, 200)) \o ELLIPSIS

\* the location of the first entry whose numbers hold image_num; without
\* one, the first location; without entries, the start of the content
SeriesLocation(content, entries, image_num) ==
  IF \E k \in 1..Len(entries) : InImageRange(EntryRange(content, entries, k), image_num)
    THEN EntryLocation(content, entries,
           Least({k \in 1..Len(entries) :
                    InImageRange(EntryRange(content, entries, k), image_num)}))
  ELSE IF Len(entries) > 0 THEN EntryLocation(content, entries, 1)
  ELSE Strip(Prefix(content, 150)) \o ELLIPSIS

SeriesText(content, entries, image_num) ==
  IF image_num = NoImageNum THEN SeriesSummary(content, entries)
  ELSE SeriesLocation(content, entries, image_num)

SeriesParsed(description, image_num, m) ==
  IF m = NoMatch THEN [text |-> description, series |-> FALSE]
  ELSE [text |-> SeriesText(Group(description, 1, m, 5),
                            ReFindAll(SERIES_ENTRY_PATTERN, Group(description, 1, m, 5), TRUE),
                            image_num),
        series |-> TRUE]

\* the pair (text, was_series) as a record
parse_photo_series(description, image_num) ==
  SeriesParsed(description, image_num, ReMatch(PHOTO_SERIES_PATTERN, description, TRUE))

-----------------------------------------------------------------------------
(* Inputs: texts built by joining up to MaxPieces pieces.                  *)

MaxPieces == 3

RECURSIVE Joined(_, _)
Joined(pieces, n) ==
  IF n = 0 THEN {<<>>}
  ELSE LET shorter == Joined(pieces, n - 1)
       IN  shorter \cup {t \o p : t \in shorter, p \in pieces}

CleanTextPieces ==
  {<<" ">>, <<"\n">>, SANS_OBJET_PREFIX, Lower(SANS_OBJET_PREFIX),
   <<"a">>, <<"rsquo">>, <<"ndash">>, <<"e", "comb_acute">>}

CleanTextValues == Joined(CleanTextPieces, MaxPieces) \cup {None}

-----------------------------------------------------------------------------
(* clean_text, applied to a value and then to its own result.              *)

CleanTextInit ==
  /\ ct \in [pc : {"value"}, value : CleanTextValues, once : {None}, twice : {None}]
  /\ pd = Idle /\ nd = Idle /\ er = Idle /\ ps = Idle
  /\ lg = Idle /\ cm = Idle /\ au = Idle

CleanTextOnce ==
  /\ ct.pc = "value"
  /\ ct' = [ct EXCEPT !.pc = "once", !.once = clean_text(ct.value)]
  /\ UNCHANGED <<pd, nd, er, ps, lg, cm, au>>

CleanTextTwice ==
  /\ ct.pc = "once"
  /\ ct' = [ct EXCEPT !.pc = "twice", !.twice = clean_text(ct.once)]
  /\ UNCHANGED <<pd, nd, er, ps, lg, cm, au>>

CleanTextNext == CleanTextOnce \/ CleanTextTwice

SpecCleanText == CleanTextInit /\ [][CleanTextNext]_vars

\* C1: clean_text is idempotent: cleaning a cleaned text gives the same text
\* back, for every value, also with white space before the "Sans objet"
\* prefix or with the prefix repeated.
C1_CleanTextIdempotent == ct.pc = "twice" => ct.twice = ct.once

-----------------------------------------------------------------------------
(* parse_date, applied to one date string.                                 *)

DatePieces ==
  {<<"1", "9", "3", "6">>,
   <<"0", "9", "9", "9">>,
   <<"1", "9", "3">>,
   <<"3", "6">>,
   <<"2", "6">>,
   <<"-">>,
   <<" ">>,
   <<".">>,
   <<"m", "a", "r", "s">>,
   <<"a", "v", "r">>,
   <<"D", "e_acute", "c", "e", "n", "n", "i", "e", " ">>,
   <<"v", "u", "e">>}

\* the formats the module docstring and the comments of parse_date list
DocumentedDates ==
  {<<"1", "9", "4", "7", "-", "1", "9", "4", "9">>,
   <<"1", "9", "6", "6">>,
   <<"D", "e_acute", "c", "e", "n", "n", "i", "e", " ", "1", "9", "3", "0">>,
   <<"2", "6", "-", "m", "a", "r", "s", "-", "3", "6">>,
   <<"2", "4", " ", "j", "u", "i", "n", " ", "1", "9", "2", "5">>,
   <<"1", "e", "r", " ", "a", "v", "r", "i", "l", " ", "1", "9", "3", "6">>,
   <<"0", "8", "-", "a", "v", "r", ".", "-", "3", "6">>,
   <<"a", "v", "r", ".", "-", "2", "5">>,
   <<"V", "u", "e", " ", "-", " ", "2", " ", "m", "a", "i", " ", "1", "9", "6", "4">>}

\* the years of two digits, "00" to "99"
TwoDigitYears == {<<a, b>> : a \in DIGITS, b \in DIGITS}

\* month names as the archives write them before a year of two digits:
\* three that FRENCH_MONTHS holds, one of them in capitals, and one that
\* it does not hold
ShortYearMonths ==
  {<<"m", "a", "r", "s">>, <<"a", "v", "r", ".">>,
   <<"A", "O", "U_circ", "T">>, <<"v", "u", "e">>}

\* "26-mars-36", "8 avr. 36" and "avr.-36" for each month and year
ShortYearDates ==
  {<<"2", "6", "-">> \o month \o <<"-">> \o year :
      month \in ShortYearMonths, year \in TwoDigitYears}
  \cup {<<"8", " ">> \o month \o <<" ">> \o year :
      month \in ShortYearMonths, year \in TwoDigitYears}
  \cup {month \o <<"-">> \o year :
      month \in ShortYearMonths, year \in TwoDigitYears}

DateStrings ==
  Joined(DatePieces, MaxPieces) \cup DocumentedDates \cup ShortYearDates
    \cup {None}

ParseDateInit ==
  /\ pd \in [pc : {"call"}, date_str : DateStrings, result : {None}]
  /\ ct = Idle /\ nd = Idle /\ er = Idle /\ ps = Idle
  /\ lg = Idle /\ cm = Idle /\ au = Idle

ParseDate ==
  /\ pd.pc = "call"
  /\ pd' = [pd EXCEPT !.pc = "returned", !.result = parse_date(pd.date_str)]
  /\ UNCHANGED <<ct, nd, er, ps, lg, cm, au>>

ParseDateNext == ParseDate

SpecParseDate == ParseDateInit /\ [][ParseDateNext]_vars

\* the numbers written in a text, one for each run of digits
NumbersIn(text) ==
  LET runs == ReFindAll(<<Cls(DIGITS, 1, -1)>>, text, FALSE)
  IN  {ToInt(Group(text, runs[k].at, runs[k].lens, 1)) : k \in 1..Len(runs)}

AllDigits(text) == \A k \in 1..Len(text) : text[k] \in DIGITS

\* "YYYY", "YYYY-YYYY" or "YYYYs"
IsCanonicalDate(text) ==
  \/ Len(text) = 4 /\ AllDigits(text)
  \/ Len(text) = 9 /\ AllDigits(SubSeq(text, 1, 4)) /\ text[5] = "-"
                   /\ AllDigits(SubSeq(text, 6, 9))
  \/ Len(text) = 5 /\ AllDigits(SubSeq(text, 1, 4)) /\ text[5] = "s"

\* C2: parse_date never returns a result that holds a year outside
\* [1800, 2100]: every pattern stage rejects such a year.
C2_YearsInRange ==
  (pd.pc = "returned" /\ pd.result # None)
    => \A year \in NumbersIn(pd.result) : 1800 <= year /\ year <= 2100

\* C3: parse_date returns None or a text in one of the three canonical
\* forms YYYY, YYYY-YYYY, YYYYs, and nothing of any other shape.
C3_CanonicalForm ==
  pd.pc = "returned" => (pd.result = None \/ IsCanonicalDate(pd.result))

-----------------------------------------------------------------------------
(* Records: a JSON object is a function from its keys to their values.     *)

\* dict.get(key): the value, or None when the key is absent
Get(record, key) == IF key \in DOMAIN record THEN record[key] ELSE None

\* the truth value of a text or None: None and "" are false
Truthy(value) == value # None /\ Len(value) > 0

\* record.get(key) is a non-empty dict
HasDict(record, key) == key \in DOMAIN record /\ DOMAIN record[key] # {}

\* dict(record) with record[key] = value
Put(record, key, value) ==
  [k \in DOMAIN record \cup {key} |-> IF k = key THEN value ELSE record[k]]

-----------------------------------------------------------------------------
(* normalize_dates.py: main, the date pass over a manifest.                *)

\* the date source of a record: attributes_map.Date, else portal_date
RawDate(record) ==
  IF HasDict(record, "attributes_map") /\ Truthy(Get(record["attributes_map"], "Date"))
    THEN record["attributes_map"]["Date"]
  ELSE IF Truthy(Get(record, "portal_date")) THEN record["portal_date"]
  ELSE None

\* the rest of the loop body, for a record with the date source raw_date
\* that parse_date turns into normalized
Normalized(record, raw_date, normalized) ==
  IF ~Truthy(raw_date)
    THEN [record |-> record, outcome |-> "no_date_source", raw_date |-> raw_date]
  ELSE IF Truthy(normalized)
    THEN [record |-> Put(record, "date_value", normalized),
          outcome |-> "extracted_date", raw_date |-> raw_date]
  ELSE [record |-> record, outcome |-> "parse_failed", raw_date |-> raw_date]

WithRawDate(record, raw_date) == Normalized(record, raw_date, parse_date(raw_date))

\* the body of the loop over the records, after the test for an existing
\* date_value
NormalizeRecordUnguarded(record) == WithRawDate(record, RawDate(record))

\* the loop body with the plausible slip of leaving out
\* "if record.get('date_value'): continue"
NormalizeRecordOverwriting(record) == NormalizeRecordUnguarded(record)

\* the body of the loop over the records: the record as it is left, and
\* the counter it adds to
NormalizeRecord(record) ==
  IF Truthy(Get(record, "date_value"))
    THEN [record |-> record, outcome |-> "already_has_date", raw_date |-> None]
    ELSE NormalizeRecordUnguarded(record)

MaxRecords == 2

MAX_FAILED_EXAMPLES == 10

\* the union of records with disjoint keys
Merge(r1, r2) ==
  [k \in DOMAIN r1 \cup DOMAIN r2 |-> IF k \in DOMAIN r1 THEN r1[k] ELSE r2[k]]

\* the records of the input manifest: the date_value is absent, empty or
\* set, and the date sources are absent or hold a few values
DateValueFields ==
  {<<>>, [date_value |-> <<>>], [date_value |-> <<"1", "9", "5", "0">>]}

DateSourceFields ==
  {<<>>,
   [attributes_map |-> [Date |-> <<"2", "6", "-", "m", "a", "r", "s", "-", "3", "6">>]],
   [attributes_map |-> [Date |-> <<"i", "n", "c", "o", "n", "n", "u">>]],
   [portal_date |-> <<"1", "9", "4", "7", "-", "1", "9", "4", "9">>],
   [portal_record |-> [Date |-> <<"1", "9", "2", "5">>]],
   [attributes_map |-> [Date |-> <<"i", "n", "c", "o", "n", "n", "u">>],
    portal_date |-> <<"1", "9", "4", "7", "-", "1", "9", "4", "9">>]}

DatedRecords == {Merge(d, f) : d \in DateValueFields, f \in DateSourceFields}

RECURSIVE ListsOf(_, _)
ListsOf(S, n) ==
  IF n = 0 THEN {<<>>}
  ELSE LET shorter == ListsOf(S, n - 1)
       IN  shorter \cup {Append(l, x) : l \in shorter, x \in S}

DatePassInit ==
  /\ \E exists \in BOOLEAN, dry \in BOOLEAN :
       \E file \in (IF exists THEN ListsOf(DatedRecords, MaxRecords) ELSE {<<>>}) :
         nd = [pc |-> "start", input_exists |-> exists, input_file |-> file,
               dry_run |-> dry, output_written |-> FALSE, output_file |-> <<>>,
               records |-> <<>>, i |-> 1,
               already_has_date |-> 0, extracted_date |-> 0,
               no_date_source |-> 0, parse_failed |-> 0,
               failed_examples |-> <<>>]
  /\ ct = Idle /\ pd = Idle /\ er = Idle /\ ps = Idle
  /\ lg = Idle /\ cm = Idle /\ au = Idle

\* if not input_path.exists(): sys.exit(1)
DatePassInputMissing ==
  /\ nd.pc = "start" /\ ~nd.input_exists
  /\ nd' = [nd EXCEPT !.pc = "exit 1"]
  /\ UNCHANGED <<ct, pd, er, ps, lg, cm, au>>

\* records = [json.loads(line) for each non-blank line]
DatePassRead ==
  /\ nd.pc = "start" /\ nd.input_exists
  /\ nd' = [nd EXCEPT !.pc = "loop", !.records = nd.input_file]
  /\ UNCHANGED <<ct, pd, er, ps, lg, cm, au>>

\* counter += 1, when the record had this outcome
Bump(counter, hit) == IF hit THEN counter + 1 ELSE counter

\* the iteration with the slip of leaving out the "continue" that follows
\* no_date_source += 1, so that the record goes on to the parse_failed branch
CountedWithoutContinue(state, r) ==
  [state EXCEPT
     !.records[state.i] = r.record,
     !.i = state.i + 1,
     !.already_has_date = Bump(@, r.outcome = "already_has_date"),
     !.extracted_date = Bump(@, r.outcome = "extracted_date"),
     !.no_date_source = Bump(@, r.outcome = "no_date_source"),
     !.parse_failed = Bump(@, r.outcome \in {"parse_failed", "no_date_source"}),
     !.failed_examples =
        IF r.outcome = "parse_failed" /\ Len(@) < MAX_FAILED_EXAMPLES
          THEN Append(@, r.raw_date) ELSE @]

\* the state after one iteration of the loop that left r
Counted(state, r) ==
  [state EXCEPT
     !.records[state.i] = r.record,
     !.i = state.i + 1,
     !.already_has_date = Bump(@, r.outcome = "already_has_date"),
     !.extracted_date = Bump(@, r.outcome = "extracted_date"),
     !.no_date_source = Bump(@, r.outcome = "no_date_source"),
     !.parse_failed = Bump(@, r.outcome = "parse_failed"),
     !.failed_examples =
        IF r.outcome = "parse_failed" /\ Len(@) < MAX_FAILED_EXAMPLES
          THEN Append(@, r.raw_date) ELSE @]

\* one iteration of: for record in records
DatePassRecord ==
  /\ nd.pc = "loop" /\ nd.i <= Len(nd.records)
  /\ nd' = Counted(nd, NormalizeRecord(nd.records[nd.i]))
  /\ UNCHANGED <<ct, pd, er, ps, lg, cm, au>>

\* if args.dry_run: return
DatePassDryRun ==
  /\ nd.pc = "loop" /\ nd.i > Len(nd.records) /\ nd.dry_run
  /\ nd' = [nd EXCEPT !.pc = "done"]
  /\ UNCHANGED <<ct, pd, er, ps, lg, cm, au>>

\* with open(output_path, 'w'): one line for each record
DatePassWrite ==
  /\ nd.pc = "loop" /\ nd.i > Len(nd.records) /\ ~nd.dry_run
  /\ nd' = [nd EXCEPT !.pc = "done", !.output_written = TRUE,
                     !.output_file = nd.records]
  /\ UNCHANGED <<ct, pd, er, ps, lg, cm, au>>

DatePassNext ==
  \/ DatePassInputMissing
  \/ DatePassRead
  \/ DatePassRecord
  \/ DatePassDryRun
  \/ DatePassWrite

SpecDatePass == DatePassInit /\ [][DatePassNext]_vars

\* the date_value field of a record: whether it is there, and its value
DateValueField(record) == <<"date_value" \in DOMAIN record, Get(record, "date_value")>>

\* record k of the input has been through the loop
Processed(k) == nd.pc \in {"loop", "done"} /\ k < nd.i

\* C4: the date pass never changes a date_value that is there: a record with
\* a non-empty date_value on input keeps it, in memory and in the output
\* written, whatever its attributes_map.Date or portal date hold; and a
\* record whose date source does not parse keeps its date_value field as it
\* was (absent stays absent, empty stays empty).
C4_DateValuePreserved ==
  \A k \in 1..Len(nd.records) :
    LET before == nd.input_file[k]
        kept(after) == DateValueField(after) = DateValueField(before)
    IN  /\ Truthy(Get(before, "date_value"))
             => /\ kept(nd.records[k])
                /\ nd.output_written => kept(nd.output_file[k])
        /\ (Processed(k) /\ parse_date(RawDate(before)) = None)
             => /\ kept(nd.records[k])
                /\ nd.output_written => kept(nd.output_file[k])

\* C4 witness: the output is written, with a record that had a date_value
\* and a date source that parses to another date, and a record whose empty
\* date_value was followed by a date source that does not parse
C4_Witness ==
  /\ nd.pc = "done" /\ nd.output_written
  /\ \E k \in 1..Len(nd.input_file) :
       /\ Truthy(Get(nd.input_file[k], "date_value"))
       /\ Truthy(parse_date(RawDate(nd.input_file[k])))
       /\ parse_date(RawDate(nd.input_file[k])) # nd.input_file[k]["date_value"]
       /\ nd.output_file[k]["date_value"] = nd.input_file[k]["date_value"]
  /\ \E k \in 1..Len(nd.input_file) :
       /\ "date_value" \in DOMAIN nd.input_file[k]
       /\ ~Truthy(nd.input_file[k]["date_value"])
       /\ Truthy(RawDate(nd.input_file[k]))
       /\ parse_date(RawDate(nd.input_file[k])) = None

-----------------------------------------------------------------------------
(* clean_metadata.py: the description of a record.  A pair that the code   *)
(* returns is a record here: (text, changed), (text, source).              *)

\* the abbreviations that stand for no content, each with its replacement
ABBREVIATION_MAP ==
  {<<<<"s", "/", "o">>, <<>>>>,
   <<<<"s", "a", "n", "s", " ", "o", "b", "j", "e", "t">>, <<>>>>,
   <<<<"n", "/", "d">>, <<>>>>,
   <<<<"n", ".", "a", ".">>, <<>>>>,
   <<<<"n", "/", "a">>, <<>>>>}

Expanded(text, key) ==
  IF \E entry \in ABBREVIATION_MAP : entry[1] = key
    THEN [text |-> (CHOOSE entry \in ABBREVIATION_MAP : entry[1] = key)[2],
          changed |-> TRUE]
    ELSE [text |-> text, changed |-> FALSE]

expand_abbreviation(text) == Expanded(text, Lower(text))

\* the provenance tags and the markers appended to them
SOURCE_TAG ==
  [original |->
     <<"o", "r", "i", "g", "i", "n", "a", "l">>,
   expanded_abbreviation |->
     <<"e", "x", "p", "a", "n", "d", "e", "d", "-", "a", "b", "b", "r", "e",
       "v", "i", "a", "t", "i", "o", "n">>,
   portal |->
     <<"p", "o", "r", "t", "a", "l">>,
   portal_expanded |->
     <<"p", "o", "r", "t", "a", "l", "-", "e", "x", "p", "a", "n", "d", "e",
       "d">>,
   missing |->
     <<"m", "i", "s", "s", "i", "n", "g">>,
   synthetic |->
     <<"s", "y", "n", "t", "h", "e", "t", "i", "c">>,
   series_parsed |->
     <<"+", "s", "e", "r", "i", "e", "s", "-", "p", "a", "r", "s", "e", "d">>,
   plus_synthetic |->
     <<"+", "s", "y", "n", "t", "h", "e", "t", "i", "c">>]

\* the description and tag of a non-empty cleaned source
TaggedSource(cleaned, expanded, changed_tag, plain_tag) ==
  IF expanded.changed THEN [text |-> expanded.text, source |-> changed_tag]
  ELSE [text |-> cleaned, source |-> plain_tag]

Merged(cleaned_primary, cleaned_secondary) ==
  IF Len(cleaned_primary) > 0
    THEN TaggedSource(cleaned_primary, expand_abbreviation(cleaned_primary),
                      SOURCE_TAG.expanded_abbreviation, SOURCE_TAG.original)
  ELSE IF Len(cleaned_secondary) > 0
    THEN TaggedSource(cleaned_secondary, expand_abbreviation(cleaned_secondary),
                      SOURCE_TAG.portal_expanded, SOURCE_TAG.portal)
  ELSE [text |-> <<>>, source |-> SOURCE_TAG.missing]

merge_descriptions(primary, secondary) ==
  Merged(clean_text(primary), clean_text(secondary))

\* record.get("attributes", [])
Attributes(record) ==
  IF "attributes" \in DOMAIN record THEN record["attributes"] ELSE <<>>

\* record.get("portal_record") or {}
Portal(record) ==
  IF "portal_record" \in DOMAIN record THEN record["portal_record"] ELSE <<>>

\* the lookup with the plausible slip of keeping the first attribute of a
\* type (setdefault in place of assignment)
AttrValueFirst(attributes, trait_type) ==
  IF \E k \in 1..Len(attributes) : attributes[k].trait_type = trait_type
    THEN attributes[CHOOSE k \in 1..Len(attributes) :
                      /\ attributes[k].trait_type = trait_type
                      /\ \A j \in 1..(k - 1) :
                           attributes[j].trait_type # trait_type].value
    ELSE None

\* attr_map.get(trait_type): the value of the last attribute of that type
AttrValue(attributes, trait_type) ==
  IF \E k \in 1..Len(attributes) : attributes[k].trait_type = trait_type
    THEN attributes[CHOOSE k \in 1..Len(attributes) :
                      /\ attributes[k].trait_type = trait_type
                      /\ \A j \in (k + 1)..Len(attributes) :
                           attributes[j].trait_type # trait_type].value
    ELSE None

\* the text of the synthetic description
SYNTHETIC_TEXT ==
  [no_name |->
     <<"P", "h", "o", "t", "o", "g", "r", "a", "p", "h", "i", "e", " ", "d",
       "'", "a", "r", "c", "h", "i", "v", "e", " ", "d", "e", " ", "M", "o",
       "n", "t", "r", "e_acute", "a", "l", ".">>,
   date |->
     <<"C", "a", "p", "t", "u", "r", "e_acute", "e", " ", "o", "u", " ", "d",
       "a", "t", "e_acute", "e", " ", "d", "e", " ">>,
   lieu |->
     <<"L", "o", "c", "a", "l", "i", "s", "a", "t", "i", "o", "n", ":", " ">>,
   cote |->
     <<"C", "o", "t", "e", " ", "a", "r", "c", "h", "i", "v", "i", "s", "t",
       "i", "q", "u", "e", " ">>,
   filler |->
     <<" ", "D", "e_acute", "t", "a", "i", "l", "s", " ", "s", "u", "p", "p",
       "l", "e_acute", "m", "e", "n", "t", "a", "i", "r", "e", "s", " ", "n",
       "o", "n", " ", "d", "i", "s", "p", "o", "n", "i", "b", "l", "e", "s",
       ";", " ", "d", "e", "s", "c", "r", "i", "p", "t", "i", "o", "n", " ",
       "g", "e_acute", "n", "e_acute", "r", "e_acute", "e", " ", "a", "u",
       "t", "o", "m", "a", "t", "i", "q", "u", "e", "m", "e", "n", "t", ".">>]

\* the sentence of a non-empty value, none for an empty one
Sentence(lead, value) ==
  IF Len(value) > 0 THEN <<lead \o value \o <<".">>>> ELSE <<>>

Fragments(name, date_value, location_hint, cote_value) ==
  (IF Len(name) > 0 THEN <<RStripDots(name) \o <<".">>>>
   ELSE <<SYNTHETIC_TEXT.no_name>>)
  \o Sentence(SYNTHETIC_TEXT.date, date_value)
  \o Sentence(SYNTHETIC_TEXT.lieu, location_hint)
  \o Sentence(SYNTHETIC_TEXT.cote, cote_value)

SYNTHETIC_MIN_FRAGMENTS == 48

SYNTHETIC_MIN_LENGTH == 50

WithExtra(fragments, extra) ==
  IF Len(extra) > 0 /\ ~ \E k \in 1..Len(fragments) : fragments[k] = extra
    THEN Append(fragments, RStripDots(extra) \o <<".">>)
    ELSE fragments

\* the fragments, with the portal description when they are short
Extended(fragments, portal) ==
  IF Len(fragments) = 0 \/ Len(Join(fragments, <<" ">>)) < SYNTHETIC_MIN_FRAGMENTS
    THEN WithExtra(fragments, clean_text(Get(portal, "Description")))
    ELSE fragments

Composed(composed) ==
  IF Len(composed) < SYNTHETIC_MIN_LENGTH THEN composed \o SYNTHETIC_TEXT.filler ELSE composed

build_synthetic_description(record) ==
  Composed(Strip(Join(
    Extended(Fragments(clean_text(Get(record, "name")),
                       clean_text(AttrValue(Attributes(record), "Date")),
                       clean_text(Get(Portal(record), "Lieu")),
                       clean_text(AttrValue(Attributes(record), "Cote"))),
             Portal(record)),
    <<" ">>)))

-----------------------------------------------------------------------------
(* audit_metadata_quality.py: detect_language_label and                    *)
(* heuristic_language_guess.  The optional detector is an input: it is     *)
(* not installed, it raises, or it answers with a language code.           *)

LANGUAGE_MIN_LENGTH == 24

FRENCH_MARKERS ==
  <<<<"e_acute">>, <<"e_grave">>, <<"a_grave">>, <<"c_cedil">>, <<" ", "q",
      "u", "e_acute">>, <<" ", "m", "o", "n", "t", "r", "e_acute", "a",
      "l">>>>

ENGLISH_MARKERS ==
  <<<<"t", "h", "e", " ">>, <<" ", "a", "n", "d", " ">>, <<"s", "t", "r", "e",
      "e", "t">>, <<" ", "a", "v", "e", "n", "u", "e">>, <<"m", "o", "n", "t",
      "r", "e", "a", "l">>>>

\* sum(lower.count(marker) for marker in markers)
RECURSIVE MarkerCount(_, _)
MarkerCount(lower, markers) ==
  IF Len(markers) = 0 THEN 0
  ELSE Len(ReFindAll(<<Lit(Head(markers))>>, lower, FALSE))
       + MarkerCount(lower, Tail(markers))

\* the comparison with the plausible slip of >= for >, which gives a tie
\* to French
GuessTieToFrench(french_markers, english_markers) ==
  IF french_markers >= english_markers /\ french_markers >= 1 THEN "fr"
  ELSE IF english_markers > french_markers /\ english_markers >= 1 THEN "en"
  ELSE "unknown"

Guess(french_markers, english_markers) ==
  IF french_markers > english_markers /\ french_markers >= 1 THEN "fr"
  ELSE IF english_markers > french_markers /\ english_markers >= 1 THEN "en"
  ELSE "unknown"

Scored(lower) ==
  Guess(MarkerCount(lower, FRENCH_MARKERS), MarkerCount(lower, ENGLISH_MARKERS))

heuristic_language_guess(value) == Scored(Lower(value))

\* what the detector does with a text: "unavailable" when langdetect is not
\* installed, "raises" for LangDetectException, else the code it returns
DetectorOutcomes == {"unavailable", "raises", "fr", "de"}

\* the call with the plausible slip of leaving out the test of the length
LabelledWhateverLength(value, detector) ==
  IF detector = "unavailable"
    THEN [label |-> heuristic_language_guess(value), consulted |-> "heuristic"]
  ELSE IF detector = "raises"
    THEN [label |-> "unknown", consulted |-> "detector"]
  ELSE [label |-> detector, consulted |-> "detector"]

\* the call of detect_language_label: the label it returns and what it
\* consulted on the way, the heuristic, the detector or neither
Labelled(value, detector) ==
  IF Len(value) < LANGUAGE_MIN_LENGTH
    THEN [label |-> "unknown", consulted |-> "nothing"]
  ELSE IF detector = "unavailable"
    THEN [label |-> heuristic_language_guess(value), consulted |-> "heuristic"]
  ELSE IF detector = "raises"
    THEN [label |-> "unknown", consulted |-> "detector"]
  ELSE [label |-> detector, consulted |-> "detector"]

detect_language_label(value, detector) == Labelled(value, detector).label

-----------------------------------------------------------------------------
(* caption_images.py: is_real_name, the test of a descriptive name         *)

IMAGE_EXTENSIONS ==
  {<<".", "j", "p", "g">>, <<".", "j", "p", "e", "g">>, <<".", "p", "n", "g">>,
      <<".", "t", "i", "f">>, <<".", "t", "i", "f", "f">>}

\* str.endswith / str.startswith
EndsWith(text, suffix) ==
  Len(text) >= Len(suffix)
  /\ SubSeq(text, Len(text) - Len(suffix) + 1, Len(text)) = suffix

StartsWith(text, prefix) ==
  Len(text) >= Len(prefix) /\ SubSeq(text, 1, Len(prefix)) = prefix

\* r'^VM\d+[,\-_]'
COTE_CODE_PATTERN ==
  <<Lit(<<"V", "M">>), Cls(DIGITS, 1, -1), Cls({",", "-", "_"}, 1, 1)>>

\* str.isalpha() of one character
IsAlpha(c) == c \in DOMAIN LOWER_MAP \cup DOMAIN UPPER_MAP

REAL_NAME_MIN_LENGTH == 5

REAL_NAME_MIN_ALPHA == 3

is_real_name(name) ==
  IF Len(name) < REAL_NAME_MIN_LENGTH THEN FALSE
  ELSE IF \E ext \in IMAGE_EXTENSIONS : EndsWith(Lower(name), ext) THEN FALSE
  ELSE IF /\ StartsWith(Upper(name), <<"V", "M">>)
          /\ \E k \in 1..Len(name) : name[k] \in {",", "_", "-"}
          /\ ReMatch(COTE_CODE_PATTERN, name, TRUE) # NoMatch
    THEN FALSE
  ELSE Len(SelectSeq(name, LAMBDA c : IsAlpha(c) /\ c \notin {"V", "M"}))
         >= REAL_NAME_MIN_ALPHA

-----------------------------------------------------------------------------
(* clean_metadata.py: enrich_record.  The key "Mention_de_credits" stands  *)
(* for the accented key of the portal record.                              *)

PORTAL_KEYS ==
  {"Titre", "Description", "Date", "Cote", "Mention_de_credits", "Lieu"}

\* {key: clean_text(value) for key, value in attr_map.items() if value}
CleanedAttributesMap(attributes) ==
  [key \in {attributes[k].trait_type : k \in
              {j \in 1..Len(attributes) :
                 Truthy(AttrValue(attributes, attributes[j].trait_type))}}
     |-> clean_text(AttrValue(attributes, key))]

CleanedPortal(portal) ==
  [key \in DOMAIN portal |->
     IF key \in PORTAL_KEYS THEN clean_text(portal[key]) ELSE portal[key]]

\* cleaned, as it stands when the description is resolved
Prepared(record) ==
  Merge([attributes_map |-> CleanedAttributesMap(Attributes(record)),
         portal_record |-> CleanedPortal(Portal(record)),
         name |-> clean_text(Get(record, "name"))],
        Merge(record, [metadata_schema_version |-> 1]))

\* portal_record.get("Description", "")
PortalDescription(portal) ==
  IF "Description" \in DOMAIN portal THEN portal["Description"] ELSE <<>>

\* cleaned.get("image_filename") or cleaned.get("resolved_image_filename") or ""
ImageFilename(cleaned) ==
  IF Truthy(Get(cleaned, "image_filename")) THEN cleaned["image_filename"]
  ELSE IF Truthy(Get(cleaned, "resolved_image_filename"))
    THEN cleaned["resolved_image_filename"]
  ELSE <<>>

Series(merged, parsed) ==
  IF parsed.series
    THEN [text |-> parsed.text, source |-> merged.source \o SOURCE_TAG.series_parsed]
    ELSE merged

AfterSeries(merged, image_num) ==
  IF Len(merged.text) > 0
    THEN Series(merged, parse_photo_series(merged.text, image_num))
    ELSE merged

REPLACE_BELOW == 10

APPEND_BELOW == 50

SHORT_DESCRIPTION_BELOW == 50

Unchanged(resolved) ==
  [text |-> resolved.text, source |-> resolved.source, synthetic_used |-> FALSE]

Appended(resolved, synthetic_append) ==
  IF /\ Len(synthetic_append) > 0
     /\ ~ Contains(Lower(resolved.text), Lower(synthetic_append))
    THEN [text |-> Strip(resolved.text \o <<".", " ">> \o synthetic_append),
          source |-> resolved.source \o SOURCE_TAG.plus_synthetic,
          synthetic_used |-> TRUE]
    ELSE Unchanged(resolved)

\* the resolution with the slip of adding "+synthetic" to the tag when the
\* description is replaced, as it is when the description is extended
SynthesizedKeepingTag(resolved, synthetic) ==
  IF Len(resolved.text) < REPLACE_BELOW
    THEN [text |-> synthetic,
          source |-> resolved.source \o SOURCE_TAG.plus_synthetic,
          synthetic_used |-> TRUE]
  ELSE IF Len(resolved.text) < APPEND_BELOW THEN Appended(resolved, synthetic)
  ELSE Unchanged(resolved)

Synthesized(resolved, synthetic) ==
  IF Len(resolved.text) < REPLACE_BELOW
    THEN [text |-> synthetic, source |-> SOURCE_TAG.synthetic, synthetic_used |-> TRUE]
  ELSE IF Len(resolved.text) < APPEND_BELOW THEN Appended(resolved, synthetic)
  ELSE Unchanged(resolved)

\* description_value, description_source and synthetic_used of the record
Resolution(cleaned) ==
  Synthesized(
    AfterSeries(
      merge_descriptions(clean_text(Get(cleaned, "description")),
                         PortalDescription(cleaned["portal_record"])),
      extract_image_from_filename(ImageFilename(cleaned))),
    build_synthetic_description(cleaned))

Language(description_value, language) ==
  IF language = "unknown" THEN heuristic_language_guess(description_value)
  ELSE language

QUALITY_FLAG ==
  [synthetic_description |->
     <<"s", "y", "n", "t", "h", "e", "t", "i", "c", "-", "d", "e", "s", "c",
       "r", "i", "p", "t", "i", "o", "n">>,
   short_description |->
     <<"s", "h", "o", "r", "t", "-", "d", "e", "s", "c", "r", "i", "p", "t",
       "i", "o", "n">>,
   uppercase_description |->
     <<"u", "p", "p", "e", "r", "c", "a", "s", "e", "-", "d", "e", "s", "c",
       "r", "i", "p", "t", "i", "o", "n">>]

QualityFlags(description_value, synthetic_used) ==
  (IF synthetic_used THEN <<QUALITY_FLAG.synthetic_description>> ELSE <<>>)
  \o (IF Len(description_value) < SHORT_DESCRIPTION_BELOW
        THEN <<QUALITY_FLAG.short_description>> ELSE <<>>)
  \o (IF Upper(description_value) = description_value /\ Len(description_value) > 0
        THEN <<QUALITY_FLAG.uppercase_description>> ELSE <<>>)

\* clean_text(cleaned.get("credits") or portal_record.get("Mention_de_credits"))
Credits(cleaned) ==
  clean_text(IF Truthy(Get(cleaned, "credits")) THEN cleaned["credits"]
             ELSE Get(cleaned["portal_record"], "Mention_de_credits"))

\* a or b, for two texts
FirstNonEmpty(a, b) == IF Len(a) > 0 THEN a ELSE b

\* the pair (cleaned, quality) that enrich_record returns
Returned(record, cleaned, resolved, quality_flags, detector) ==
  [cleaned |->
     Merge([raw_description |-> Get(record, "description"),
            description |-> resolved.text,
            description_source |-> resolved.source,
            description_language |->
              Language(resolved.text, detect_language_label(resolved.text, detector)),
            portal_description_clean |-> PortalDescription(cleaned["portal_record"]),
            credits |-> Credits(cleaned),
            cote |-> FirstNonEmpty(clean_text(AttrValue(Attributes(cleaned), "Cote")),
                                   clean_text(Get(cleaned["portal_record"], "Cote"))),
            metadata_quality |-> [description_source |-> resolved.source,
                                  quality_flags |-> quality_flags]],
           cleaned),
   quality |-> [description_source |-> resolved.source,
                synthetic_used |-> resolved.synthetic_used,
                quality_flags |-> quality_flags]]

Flagged(record, cleaned, resolved, detector) ==
  Returned(record, cleaned, resolved,
           QualityFlags(resolved.text, resolved.synthetic_used), detector)

Enriched(record, cleaned, detector) ==
  Flagged(record, cleaned, Resolution(cleaned), detector)

\* detector is what the language detector does in this run
enrich_record(record, detector) == Enriched(record, Prepared(record), detector)

-----------------------------------------------------------------------------
(* parse_photo_series, applied to the description of a photo series: the   *)
(* template header and a list of locations, each with the images it is on. *)

MaxEntries == 3

\* a location, the annotation between its parentheses and the image
\* numbers that the annotation stands for
SeriesEntries ==
  {[location |-> <<"V", "i", "e", "u", "x", " ", "M", "o", "n", "t", "r",
      "e_acute", "a", "l">>,
    annotation |-> <<"i", "m", "a", "g", "e", "s", " ", "1", "-",
        "4">>, numbers |-> 1..4],
   [location |-> <<"B", "a", "s", "i", "l", "i", "q", "u", "e", " ", "N", "o",
       "t", "r", "e", "-", "D", "a", "m", "e">>,
    annotation |-> <<"5", "-", "7">>, numbers |-> 5..7],
   [location |-> <<"P", "l", "a", "c", "e", " ", "V", "i", "c", "t", "o", "r", "i", "a">>,
    annotation |-> <<"8", "-", "1", "0">>, numbers |-> 8..10],
   [location |-> <<"P", "a", "r", "c">>,
    annotation |-> <<"i", "m", "a", "g", "e", " ", "8">>, numbers |-> {8}],
   [location |-> <<"G", "a", "r", "e">>,
    annotation |-> <<"i", "m", "a", "g", "e", "s", " ", "2", ",", " ",
        "5">>, numbers |-> {2, 5}]}

\* the lists of at most n entries, no location twice
EntryLists(n) ==
  {l \in ListsOf(SeriesEntries, n) :
     \A j, k \in 1..Len(l) : j # k => l[j] # l[k]}

\* the description of a series, laid out as in the docstring
RECURSIVE SeriesLines(_)
SeriesLines(entries) ==
  IF Len(entries) = 0 THEN <<>>
  ELSE <<"\n", " ">> \o Head(entries).location \o <<" ", "(">>
       \o Head(entries).annotation \o <<")">> \o SeriesLines(Tail(entries))

SeriesDescription(entries) == PHOTO_SERIES_HEADER \o <<" ", ":">> \o SeriesLines(entries)

ImageNums == {NoImageNum, 1, 5, 8}

PhotoSeriesInit ==
  /\ \E entries \in EntryLists(MaxEntries), template \in BOOLEAN, n \in ImageNums :
       ps = [pc |-> "call", entries |-> entries,
             description |-> IF template THEN SeriesDescription(entries)
                             ELSE SeriesLines(entries),
             image_num |-> n,
             result |-> [text |-> None, series |-> FALSE]]
  /\ ct = Idle /\ pd = Idle /\ nd = Idle /\ er = Idle
  /\ lg = Idle /\ cm = Idle /\ au = Idle

ParsePhotoSeries ==
  /\ ps.pc = "call"
  /\ ps' = [ps EXCEPT !.pc = "returned",
                      !.result = parse_photo_series(ps.description, ps.image_num)]
  /\ UNCHANGED <<ct, pd, nd, er, lg, cm, au>>

PhotoSeriesNext == ParsePhotoSeries

SpecPhotoSeries == PhotoSeriesInit /\ [][PhotoSeriesNext]_vars

\* C8: for a description of the series template and an image number n,
\* parse_photo_series returns the location whose annotation (a number, a
\* list or a range, with or without the word image/images) contains n, and
\* never a location whose annotation does not contain n.
C8_LocationOfImage ==
  (ps.pc = "returned" /\ ps.result.series /\ ps.image_num # NoImageNum)
    => /\ \A k \in 1..Len(ps.entries) :
            ps.result.text = ps.entries[k].location
              => ps.image_num \in ps.entries[k].numbers
       /\ (\E k \in 1..Len(ps.entries) : ps.image_num \in ps.entries[k].numbers)
            => \E k \in 1..Len(ps.entries) :
                 /\ ps.image_num \in ps.entries[k].numbers
                 /\ ps.result.text = ps.entries[k].location

-----------------------------------------------------------------------------
(* enrich_record, applied to one record of the manifest.                   *)

NameFields ==
  {<<>>,
   [name |-> <<"P", "a", "r", "c", " ", "L", "a", "f", "o", "n", "t", "a", "i",
       "n", "e">>],
   [name |-> <<"p", "h", "o", "t", "o", ".", "j", "p", "g">>],
   [name |-> <<"V", "u", "e", ".", ".", ".">>],
   [name |-> <<" ">> \o SANS_OBJET_PREFIX \o <<" ", "P", "a", "r", "c">>],
   [name |-> [k \in 1..50 |-> IF k % 2 = 1 THEN "i" ELSE "comb_dot"]]}

DescriptionFields ==
  {<<>>,
   [description |-> <<"S", "/", "O">>],
   [description |-> <<"V", "u", "e">>],
   [description |-> <<"V", "u", "e", " ", "d", "e", " ", "l", "a", " ", "r",
       "u", "e", ".">>],
   [description |->
      <<"V", "u", "e", " ", "a", "e_acute", "r", "i", "e", "n", "n", "e", " ",
          "d", "e", " ", "l", "a", " ", "r", "u", "e", " ", "S", "h", "e", "r",
          "b", "r", "o", "o", "k", "e", " ", "a_grave", " ">>
      \o <<"M", "o", "n", "t", "r", "e_acute", "a", "l", ",", " ", "p", "r",
          "e_grave", "s", " ", "d", "u", " ", "p", "a", "r", "c", " ", "L",
          "a", "f", "o", "n", "t", "a", "i", "n", "e", ".">>],
   [description |-> SeriesDescription(<<
      [location |-> <<"V", "i", "e", "u", "x", " ", "M", "o", "n", "t", "r",
          "e_acute", "a", "l">>,
       annotation |-> <<"i", "m", "a", "g", "e", "s", " ", "1", "-",
           "4">>, numbers |-> 1..4],
      [location |-> <<"B", "a", "s", "i", "l", "i", "q", "u", "e", " ", "N",
          "o", "t", "r", "e", "-", "D", "a", "m", "e">>,
       annotation |-> <<"5", "-", "7">>, numbers |-> 5..7],
      [location |-> <<"P", "l", "a", "c", "e", " ", "V", "i", "c", "t", "o",
          "r", "i", "a">>,
       annotation |-> <<"8", "-", "1", "0">>, numbers |-> 8..10]>>)],
   [description |-> SeriesDescription(<<
      [location |-> <<"P", "a", "r", "c">>,
       annotation |-> <<"i", "m", "a", "g", "e", " ", "8">>, numbers |-> {8}]>>)],
   [description |-> [k \in 1..26 |-> IF k <= 25 THEN "I_dot" ELSE "."]],
   [description |->
      <<"1", "9", "4", "7", "-", "1", "9", "4", "9", ",", " ", "1", "9", "5",
          "0", "-", "1", "9", "5", "1", ",", " ", "1", "9", "5", "2", "-">>
      \o <<"1", "9", "5", "3", ",", " ", "1", "9", "5", "4", "-", "1", "9",
          "5", "5", ",", " ", "1", "9", "5", "6", "-", "1", "9", "5", "7",
          ".">>]}

PortalFields ==
  {<<>>,
   [portal_record |-> [Description |-> <<>>]],
   [portal_record |->
      [Description |->
         <<"V", "u", "e", " ", "d", "e", " ", "l", "rsquo", "e_acute", "g",
             "l", "i", "s", "e", " ", "N", "o", "t", "r", "e", "-", "D", "a",
             "m", "e", ",", " ", " ", "p", "r", "i", "s", "e">>
         \o <<" ", "d", "e", "p", "u", "i", "s", " ", "l", "a", " ", "p", "l",
             "a", "c", "e", " ", "d", "rsquo", "A", "r", "m", "e", "s", " ",
             "e", "n", " ", "1", "9", "2", "5", ".">>]],
   [portal_record |-> [Description |-> <<"n", "/", "a">>,
                       Lieu |-> <<"M", "o", "n", "t", "r", "e_acute", "a", "l">>,
                       Cote |-> <<"V", "M", "9", "4", "-", "A", "0", "0", "0", "1">>]]}

AttributeFields ==
  {<<>>,
   [attributes |-> <<[trait_type |-> "Date", value |-> <<"1", "9", "5", "0">>],
                     [trait_type |-> "Date", value |-> <<"1", "9", "6", "6">>],
                     [trait_type |-> "Cote", value |-> <<"V", "M", "9", "7",
                         ",", "S", "3">>]>>],
   [attributes |-> <<[trait_type |-> "Date", value |-> <<" ", " ">>]>>],
   [attributes |-> <<[trait_type |-> "Date", value |-> <<"1", "9", "5", "0">>],
                     [trait_type |-> "Date", value |-> <<>>]>>]}

FilenameFields ==
  {<<>>, [image_filename |-> <<"m", "t", "l", "_", "a", "r", "c", "h", "i",
      "v", "e", "s", "_", "i", "m", "a", "g", "e", "_", "8", ".", "j", "p",
      "g">>]}

RawRecords ==
  {Merge(n, Merge(d, Merge(p, Merge(a, f)))) :
     n \in NameFields, d \in DescriptionFields, p \in PortalFields,
     a \in AttributeFields, f \in FilenameFields}

EnrichInit ==
  /\ \E record \in RawRecords, detector \in DetectorOutcomes :
       er = [pc |-> "record", record |-> record, given |-> record,
             detector |-> detector, cleaned |-> <<>>, quality |-> <<>>]
  /\ ct = Idle /\ pd = Idle /\ nd = Idle /\ ps = Idle
  /\ lg = Idle /\ cm = Idle /\ au = Idle

\* the state after a call with the slip of "cleaned = record" for
\* "cleaned = dict(record)": the record of the caller is the cleaned one
EnteredInPlace(state, returned) ==
  [state EXCEPT !.pc = "enriched", !.cleaned = returned.cleaned,
                !.quality = returned.quality, !.record = returned.cleaned]

\* the state after the call has returned the pair (cleaned, quality): the
\* record of the caller is as it was given, since cleaned is a copy of it
\* and the portal record is copied before its fields are cleaned
Entered(state, returned) ==
  [state EXCEPT !.pc = "enriched", !.cleaned = returned.cleaned,
                !.quality = returned.quality]

EnrichRecord ==
  /\ er.pc = "record"
  /\ er' = Entered(er, enrich_record(er.record, er.detector))
  /\ UNCHANGED <<ct, pd, nd, ps, lg, cm, au>>

EnrichNext == EnrichRecord

SpecEnrich == EnrichInit /\ [][EnrichNext]_vars

\* the record has been through enrich_record
IsEnriched == er.pc = "enriched"

\* the cleaned primary description is one of the abbreviations for no content
PrimaryIsAbbreviation(record) ==
  expand_abbreviation(clean_text(Get(record, "description"))).changed

\* the cleaned description of the portal record
Secondary(record) == clean_text(Get(Portal(record), "Description"))

\* C5: when the cleaned primary description is an abbreviation for no
\* content, resolution falls through to the portal description: if that is
\* usable text, the record is not given a synthetic description, its
\* provenance is the portal's, and a portal text that needs neither series
\* parsing nor augmentation is the description as it stands.
C5_AbbreviationFallsThrough ==
  LET secondary == Secondary(er.record)
  IN  (/\ IsEnriched
       /\ PrimaryIsAbbreviation(er.record)
       /\ Len(secondary) > 0
       /\ ~ expand_abbreviation(secondary).changed)
        => /\ StartsWith(er.cleaned.description_source, SOURCE_TAG.portal)
           /\ (/\ Len(secondary) >= APPEND_BELOW
               /\ ~ parse_photo_series(secondary, NoImageNum).series)
                => /\ er.cleaned.description = secondary
                   /\ er.cleaned.description_source = SOURCE_TAG.portal

\* every source field of the record is empty: the two descriptions and the
\* inputs of the synthesis (name, Date attribute, portal Lieu, Cote)
NoSourceField(record) ==
  /\ Len(clean_text(Get(record, "description"))) = 0
  /\ Len(Secondary(record)) = 0
  /\ Len(clean_text(Get(record, "name"))) = 0
  /\ Len(clean_text(AttrValue(Attributes(record), "Date"))) = 0
  /\ Len(clean_text(Get(Portal(record), "Lieu"))) = 0
  /\ Len(clean_text(AttrValue(Attributes(record), "Cote"))) = 0
  /\ Len(clean_text(Get(Portal(record), "Cote"))) = 0

\* C6: the final description is never null; it is empty only if every
\* source field of the record was empty, and otherwise it has at least 50
\* characters.
C6_DescriptionLength ==
  IsEnriched
    => /\ er.cleaned.description # None
       /\ Len(er.cleaned.description) = 0 => NoSourceField(er.record)
       /\ ~ NoSourceField(er.record)
            => Len(er.cleaned.description) >= SHORT_DESCRIPTION_BELOW

\* C7: a record whose primary description is an abbreviation for no content
\* and whose portal description is empty gets a synthesized description
\* that contains the cleaned name of the record and the value of its Date
\* attribute, the provenance "synthetic" and the flag "synthetic-description".
C7_SyntheticFromNameAndDate ==
  (/\ IsEnriched
   /\ PrimaryIsAbbreviation(er.record)
   /\ Len(Secondary(er.record)) = 0)
    => /\ Contains(er.cleaned.description, er.cleaned.name)
       /\ Contains(er.cleaned.description,
                   clean_text(AttrValue(Attributes(er.record), "Date")))
       /\ er.cleaned.description_source = SOURCE_TAG.synthetic
       /\ \E k \in 1..Len(er.quality.quality_flags) :
            er.quality.quality_flags[k] = QUALITY_FLAG.synthetic_description

\* the photo-series rule fires for the record: the merged description is
\* not empty and matches the series template
SeriesRuleFires(record) ==
  LET cleaned == Prepared(record)
      merged == merge_descriptions(clean_text(Get(cleaned, "description")),
                                   PortalDescription(cleaned["portal_record"]))
  IN  /\ Len(merged.text) > 0
      /\ parse_photo_series(merged.text,
                            extract_image_from_filename(ImageFilename(cleaned))).series

\* C9: whenever the photo-series rule fires for a record, the final
\* description_source holds the "+series-parsed" marker, also when the
\* fragment extracted is shorter than 10 characters and synthesis follows.
C9_SeriesMarkerKept ==
  (IsEnriched /\ SeriesRuleFires(er.record))
    => Contains(er.cleaned.description_source, SOURCE_TAG.series_parsed)

\* C10: the synthesized description holds the name of the record as a
\* sentence only when the name passes the real-title test: a name that ends
\* in an image extension, that is an archival code or that has fewer than 3
\* letters outside the code prefix does not appear in it.
C10_OnlyRealNames ==
  LET name == clean_text(er.cleaned.name)
  IN  (/\ IsEnriched
       /\ er.cleaned.description_source = SOURCE_TAG.synthetic
       /\ Len(name) > 0
       /\ ~ is_real_name(name))
        => ~ Contains(er.cleaned.description, RStripDots(name) \o <<".">>)

\* C11: every value of the attributes_map that enrich_record produces is a
\* non-empty text: an attribute whose value cleans to the empty text is
\* not in the map.
C11_AttributeValuesNonEmpty ==
  IsEnriched
    => \A key \in DOMAIN er.cleaned.attributes_map :
         Len(er.cleaned.attributes_map[key]) > 0

\* the attribute at position k is the last of its trait_type in the list
LastOfType(attributes, k) ==
  \A j \in (k + 1)..Len(attributes) :
    attributes[j].trait_type # attributes[k].trait_type

\* C12: of several attributes with the same trait_type the last in list
\* order decides the entry of attributes_map: the entry is the cleaned
\* value of the last attribute, whatever an earlier one carried, and there
\* is no entry when the last attribute carries no value.
C12_LastEntryWins ==
  IsEnriched
    => LET attributes == Attributes(er.record)
           map == er.cleaned.attributes_map
       IN  \A k \in 1..Len(attributes) :
             LastOfType(attributes, k)
               => IF Truthy(attributes[k].value)
                    THEN /\ attributes[k].trait_type \in DOMAIN map
                         /\ map[attributes[k].trait_type]
                              = clean_text(attributes[k].value)
                    ELSE attributes[k].trait_type \notin DOMAIN map

\* a record with two attributes of one trait_type and different non-empty
\* values has been enriched, and the map holds the later value
C12_Witness ==
  /\ IsEnriched
  /\ LET attributes == Attributes(er.record)
     IN  \E k \in 1..Len(attributes) : \E j \in 1..(k - 1) :
           /\ LastOfType(attributes, k)
           /\ attributes[j].trait_type = attributes[k].trait_type
           /\ Truthy(attributes[j].value) /\ Truthy(attributes[k].value)
           /\ attributes[j].value # attributes[k].value
           /\ er.cleaned.attributes_map[attributes[k].trait_type]
                = clean_text(attributes[k].value)

-----------------------------------------------------------------------------
(* detect_language_label over texts on both sides of LANGUAGE_MIN_LENGTH   *)

MaxWords == 3

LanguageWords ==
  {<<"t", "h", "e", " ", "r", "u", "e", " ">>,
   <<" ", "e_acute", "g", "l", "i", "s", "e">>,
   <<"m", "o", "n", "t", "r", "e_acute", "a", "l">>}

LanguageTexts == Joined(LanguageWords, MaxWords)

LanguageInit ==
  /\ \E value \in LanguageTexts, detector \in DetectorOutcomes :
       lg = [pc |-> "text", value |-> value, detector |-> detector,
             label |-> "", consulted |-> ""]
  /\ ct = Idle /\ pd = Idle /\ nd = Idle /\ er = Idle /\ ps = Idle
  /\ cm = Idle /\ au = Idle

\* the state after the call has returned
Answered(state, call) ==
  [state EXCEPT !.pc = "labelled", !.label = call.label,
                !.consulted = call.consulted]

DetectLanguageLabel ==
  /\ lg.pc = "text"
  /\ lg' = Answered(lg, Labelled(lg.value, lg.detector))
  /\ UNCHANGED <<ct, pd, nd, er, ps, cm, au>>

LanguageNext == DetectLanguageLabel

SpecLanguage == LanguageInit /\ [][LanguageNext]_vars

LANGUAGE_LABELS == {"fr", "en", "unknown"}

\* C16: the language label is one of "fr", "en", "unknown", whatever the
\* text and whatever the detector answers: both the label that
\* detect_language_label returns for the final description and the
\* description_language that enrich_record writes.
C16_LabelInContract ==
  IsEnriched
    => /\ detect_language_label(er.cleaned.description, er.detector)
            \in LANGUAGE_LABELS
       /\ er.cleaned.description_language \in LANGUAGE_LABELS

\* C17: for every text of fewer than 24 characters detect_language_label
\* returns "unknown", whatever the text holds and whether or not the
\* detector is available, and consults neither detector nor heuristic.
C17_ShortTextUnknown ==
  (lg.pc = "labelled" /\ Len(lg.value) < LANGUAGE_MIN_LENGTH)
    => lg.label = "unknown" /\ lg.consulted = "nothing"

\* a text of 23 characters with a marker of French has been labelled with
\* a detector that answers "fr"
C17_Witness ==
  /\ lg.pc = "labelled"
  /\ Len(lg.value) = LANGUAGE_MIN_LENGTH - 1
  /\ heuristic_language_guess(lg.value) = "fr"
  /\ lg.detector = "fr"
  /\ lg.label = "unknown"

-----------------------------------------------------------------------------
(* the date pass and the Date of the portal record                         *)

\* attributes_map.Date of a record, None when there is none
AttributesMapDate(record) ==
  IF "attributes_map" \in DOMAIN record
    THEN Get(record["attributes_map"], "Date") ELSE None

\* C19: the date pass takes the date of a record without date_value from
\* attributes_map.Date and then from the Date of its portal record: when
\* attributes_map.Date is missing and portal_record.Date parses, the record
\* is left with the canonical form of the portal date as its date_value.
C19_PortalDateResolved ==
  \A k \in 1..Len(nd.records) :
    LET before == nd.input_file[k]
        portal_date == Get(Portal(before), "Date")
    IN  (/\ Processed(k)
         /\ ~Truthy(Get(before, "date_value"))
         /\ ~Truthy(AttributesMapDate(before))
         /\ Truthy(parse_date(portal_date)))
          => Get(nd.records[k], "date_value") = parse_date(portal_date)

-----------------------------------------------------------------------------
(* clean_metadata.py: main and iterate_records, a run over a manifest.     *)
(* A line of a JSON-lines file is a pair of its kind and its value: a      *)
(* "json" line holds the value that json.loads returns for it, a "blank"   *)
(* line is empty after strip(), json.loads raises for a "malformed" line,  *)
(* and a "partial" line is the beginning of a "json" line.                 *)

MaxLines == 3

\* json.dumps(value, ensure_ascii=False) + "\n"
Dumps(value) == [kind |-> "json", value |-> value]

\* a Counter after update([key])
Tally(counter, key) ==
  [k \in DOMAIN counter \cup {key} |->
     IF k \notin DOMAIN counter THEN 1
     ELSE IF k = key THEN counter[k] + 1 ELSE counter[k]]

\* a Counter after update(keys)
RECURSIVE TallyAll(_, _)
TallyAll(counter, keys) ==
  IF Len(keys) = 0 THEN counter
  ELSE TallyAll(Tally(counter, Head(keys)), Tail(keys))

RunRecords ==
  {[name |-> <<"P", "a", "r", "c", " ", "L", "a", "f", "o", "n", "t", "a", "i", "n", "e">>,
    description |-> <<"S", "/", "O">>,
    attributes |-> <<[trait_type |-> "Date", value |-> <<"1", "9", "6", "6">>]>>],
   [description |-> <<"V", "u", "e", " ", "d", "e", " ", "l", "'", "e_acute", "g", "l", "i", "s", "e", " ", "N", "o", "t", "r", "e", "-", "D", "a", "m", "e", ",", " ", "p", "r", "i", "s", "e", " ", "d", "e", "p", "u", "i", "s", " ", "l", "a", " ", "p", "l", "a", "c", "e", " ", "d", "'", "A", "r", "m", "e", "s", " ", "e", "n", " ", "1", "9", "2", "5", ".">>]}

RunLines ==
  {[kind |-> "blank", value |-> <<>>], [kind |-> "malformed", value |-> <<>>]}
    \cup {Dumps(record) : record \in RunRecords}

CleanRunInit ==
  /\ \E exists \in BOOLEAN, detector \in DetectorOutcomes :
       \E file \in (IF exists THEN ListsOf(RunLines, MaxLines) ELSE {<<>>}) :
         cm = [pc |-> "start", input_exists |-> exists, input_file |-> file,
               detector |-> detector, rerun |-> FALSE,
               parent_dir |-> FALSE, output_exists |-> FALSE,
               output_file |-> <<>>, summary_exists |-> FALSE,
               summary_file |-> <<>>, i |-> 1, total_records |-> 0,
               description_source_counts |-> <<>>,
               quality_flag_counts |-> <<>>, status |-> 0,
               left |-> <<>>]
  /\ ct = Idle /\ pd = Idle /\ nd = Idle /\ er = Idle /\ ps = Idle
  /\ lg = Idle /\ au = Idle

\* raise SystemExit("Input manifest not found: ..."), with the slip of
\* testing the input after the directory of the output has been made
RefusedAfterMkdir(state) ==
  [state EXCEPT !.pc = "exit", !.status = 1, !.parent_dir = TRUE]

\* raise SystemExit("Input manifest not found: ...")
Refused(state) == [state EXCEPT !.pc = "exit", !.status = 1]

\* if not input_path.exists(): raise SystemExit(...)
CleanInputMissing ==
  /\ cm.pc = "start" /\ ~cm.input_exists
  /\ cm' = Refused(cm)
  /\ UNCHANGED <<ct, pd, nd, er, ps, lg, au>>

\* output_path.parent.mkdir(parents=True, exist_ok=True); summary = {...}
CleanMkdir ==
  /\ cm.pc = "start" /\ cm.input_exists
  /\ cm' = [cm EXCEPT !.pc = "made", !.parent_dir = TRUE,
                     !.total_records = 0,
                     !.description_source_counts = <<>>,
                     !.quality_flag_counts = <<>>]
  /\ UNCHANGED <<ct, pd, nd, er, ps, lg, au>>

\* the open with the slip of mode "a": the file keeps what it holds
OpenedForAppend(state) ==
  [state EXCEPT !.pc = "loop", !.output_exists = TRUE, !.i = 1]

\* output_path.open("w"): the file is there and empty
Opened(state) ==
  [state EXCEPT !.pc = "loop", !.output_exists = TRUE, !.output_file = <<>>,
                !.i = 1]

\* with output_path.open("w", encoding="utf-8") as output_file
CleanOpen ==
  /\ cm.pc = "made"
  /\ cm' = Opened(cm)
  /\ UNCHANGED <<ct, pd, nd, er, ps, lg, au>>

\* the line at hand in iterate_records
CleanLine == cm.input_file[cm.i]

AtLine(kind) ==
  cm.pc = "loop" /\ cm.i <= Len(cm.input_file) /\ CleanLine.kind = kind

\* line = line.strip(); if not line: continue
CleanBlankLine ==
  /\ AtLine("blank")
  /\ cm' = [cm EXCEPT !.i = cm.i + 1]
  /\ UNCHANGED <<ct, pd, nd, er, ps, lg, au>>

\* json.loads(line) raises JSONDecodeError: nothing catches it, the with
\* statement closes the output and the run ends with a traceback
CleanMalformedLine ==
  /\ AtLine("malformed")
  /\ cm' = [cm EXCEPT !.pc = "raised", !.status = 1]
  /\ UNCHANGED <<ct, pd, nd, er, ps, lg, au>>

\* the body of the loop with the slip of writing only the records that
\* carry a quality flag
EmittedIfFlagged(state, returned) ==
  [state EXCEPT
     !.i = state.i + 1,
     !.total_records = state.total_records + 1,
     !.description_source_counts =
        Tally(@, returned.quality.description_source),
     !.quality_flag_counts = TallyAll(@, returned.quality.quality_flags),
     !.output_file =
        IF Len(returned.quality.quality_flags) > 0
          THEN Append(@, Dumps(returned.cleaned)) ELSE @]

\* the body of the loop for the pair that enrich_record returned
Emitted(state, returned) ==
  [state EXCEPT
     !.i = state.i + 1,
     !.total_records = state.total_records + 1,
     !.description_source_counts =
        Tally(@, returned.quality.description_source),
     !.quality_flag_counts = TallyAll(@, returned.quality.quality_flags),
     !.output_file = Append(@, Dumps(returned.cleaned))]

\* yield json.loads(line), and the body of the loop in main
CleanRecord ==
  /\ AtLine("json")
  /\ cm' = Emitted(cm, enrich_record(CleanLine.value, cm.detector))
  /\ UNCHANGED <<ct, pd, nd, er, ps, lg, au>>

\* summary_path.write_text(json.dumps(summary_dump, ...))
CleanSummary ==
  /\ cm.pc = "loop" /\ cm.i > Len(cm.input_file)
  /\ cm' = [cm EXCEPT
              !.pc = "done", !.summary_exists = TRUE,
              !.summary_file =
                 [total_records |-> cm.total_records,
                  description_source_counts |-> cm.description_source_counts,
                  quality_flag_counts |-> cm.quality_flag_counts]]
  /\ UNCHANGED <<ct, pd, nd, er, ps, lg, au>>

\* what an output file with the lines written so far can hold once the
\* process is gone: the lines flushed, and the beginning of the next; the
\* field "left" keeps what the killed run left behind
Flushed(written) ==
  {SubSeq(written, 1, j) : j \in 0..Len(written)}
    \cup {Append(SubSeq(written, 1, j),
                 [kind |-> "partial", value |-> written[j + 1].value]) :
            j \in 0..(Len(written) - 1)}

\* the first run is killed while the output is open
CleanKilled ==
  /\ cm.pc = "loop" /\ ~cm.rerun
  /\ \E left \in Flushed(cm.output_file) :
       cm' = [cm EXCEPT !.pc = "killed", !.output_file = left,
                          !.left = left]
  /\ UNCHANGED <<ct, pd, nd, er, ps, lg, au>>

\* the program is started again on the same input and the same paths
CleanRerun ==
  /\ cm.pc = "killed"
  /\ cm' = [cm EXCEPT !.pc = "start", !.rerun = TRUE, !.i = 1,
                     !.total_records = 0,
                     !.description_source_counts = <<>>,
                     !.quality_flag_counts = <<>>]
  /\ UNCHANGED <<ct, pd, nd, er, ps, lg, au>>

CleanRunNext ==
  \/ CleanInputMissing
  \/ CleanMkdir
  \/ CleanOpen
  \/ CleanBlankLine
  \/ CleanMalformedLine
  \/ CleanRecord
  \/ CleanSummary
  \/ CleanKilled
  \/ CleanRerun

SpecCleanRun == CleanRunInit /\ [][CleanRunNext]_vars

IsJson(line) == line.kind = "json"

\* the lines that enriching the records of the given lines produces
EnrichedLines(lines, detector) ==
  LET records == SelectSeq(lines, IsJson)
  IN  [k \in 1..Len(records) |->
         Dumps(enrich_record(records[k].value, detector).cleaned)]

\* the lines before the first malformed line
BeforeMalformed(lines) ==
  IF \E k \in 1..Len(lines) : lines[k].kind = "malformed"
    THEN SubSeq(lines, 1,
                Least({k \in 1..Len(lines) : lines[k].kind = "malformed"}) - 1)
    ELSE lines

WellFormed(lines) == \A k \in 1..Len(lines) : lines[k].kind # "malformed"

\* C13: a malformed line does not abort a run of clean_metadata: the run
\* does not end with an error, and when it has ended every well-formed line
\* of the input, also after a malformed one, has its enrichment in the
\* output.
C13_MalformedLineIsolated ==
  /\ cm.pc # "raised"
  /\ cm.pc = "done"
       => cm.output_file = EnrichedLines(cm.input_file, cm.detector)

\* C15: over well-formed input the output holds, after every step of the
\* loop, the enrichments of the non-blank lines read so far, one line for
\* each in input order; at completion that is every non-blank line, and
\* their number is the total_records of the summary.
C15_OneLinePerRecord ==
  (cm.pc \in {"loop", "done"} /\ WellFormed(cm.input_file))
    => /\ cm.output_file
            = EnrichedLines(SubSeq(cm.input_file, 1, cm.i - 1), cm.detector)
       /\ cm.total_records = Len(cm.output_file)
       /\ cm.pc = "done"
            => /\ cm.i - 1 = Len(cm.input_file)
               /\ cm.summary_exists
               /\ cm.summary_file.total_records
                    = Len(SelectSeq(cm.input_file, IsJson))

\* a run over a blank line and two different records is complete
C15_Witness ==
  /\ cm.pc = "done" /\ WellFormed(cm.input_file)
  /\ \E k \in 1..Len(cm.input_file) : cm.input_file[k].kind = "blank"
  /\ Len(cm.output_file) = 2
  /\ cm.output_file[1] # cm.output_file[2]
  /\ cm.summary_file.total_records = 2

\* C20: a run started again after a run that was killed leaves the output
\* of a run that was never interrupted: it starts from an empty output
\* file, and when it ends the output holds the enrichments of the records
\* and nothing that the killed run left.
C20_RerunReproducesOutput ==
  cm.rerun
    => /\ (cm.pc = "loop" /\ cm.i = 1) => cm.output_file = <<>>
       /\ cm.pc \in {"done", "raised"}
            => cm.output_file
                 = EnrichedLines(BeforeMalformed(cm.input_file), cm.detector)

\* a second run is complete after a first run that was killed with one
\* line and the beginning of the next in the output
C20_Witness ==
  /\ cm.rerun /\ cm.pc = "done"
  /\ Len(cm.left) = 2
  /\ cm.left[2].kind = "partial"
  /\ Len(cm.output_file) >= 2

-----------------------------------------------------------------------------
(* audit_metadata_quality.py: the auditor.  The values that the manifests  *)
(* of the model hold under the audited fields are texts; the nested        *)
(* values portal_record and attributes_map are dicts.                      *)

FIELD_PATHS ==
  [name |-> << <<"name">> >>,
   description |-> << <<"description">> >>,
   portal_description |->
     << <<"portalDescription">>, <<"portal_description">>,
        <<"portal_record", "Description">> >>,
   portal_title |->
     << <<"portalTitle">>, <<"portal_title">>, <<"portal_record", "Titre">> >>,
   portal_date |->
     << <<"portalDate">>, <<"portal_date">>, <<"portal_record", "Date">> >>,
   portal_cote |->
     << <<"portalCote">>, <<"portal_cote">>, <<"portal_record", "Cote">> >>,
   credits |-> << <<"credits">>, <<"portal_record", "Mention_de_credits">> >>,
   cote |-> << <<"cote">>, <<"attributes_map", "Cote">> >>]

SHORT_DESCRIPTION_THRESHOLD == 25

LONG_DESCRIPTION_THRESHOLD == 512

SAMPLE_LIMIT == 25

LONG_VALUE_LENGTH == 200

PREVIEW_LENGTH == 120

\* the walk of resolve_field along one path of one or two keys
ResolvePath(record, path) ==
  IF Len(path) = 1 THEN Get(record, path[1])
  ELSE IF path[1] \in DOMAIN record THEN Get(record[path[1]], path[2])
  ELSE None

\* the value of the first path that is there
FirstPresent(record, paths, present) ==
  IF present = {} THEN None ELSE ResolvePath(record, paths[Least(present)])

\* the lookup with the slip of "if value:" for "if value is not None:", which
\* passes over an empty text
ResolveFieldFirstTruthy(record, field) ==
  LET paths == IF field \in DOMAIN FIELD_PATHS THEN FIELD_PATHS[field]
               ELSE << <<field>> >>
  IN  FirstPresent(record, paths,
        {k \in 1..Len(paths) : Truthy(ResolvePath(record, paths[k]))})

resolve_field(record, field) ==
  LET paths == IF field \in DOMAIN FIELD_PATHS THEN FIELD_PATHS[field]
               ELSE << <<field>> >>
  IN  FirstPresent(record, paths,
        {k \in 1..Len(paths) : ResolvePath(record, paths[k]) # None})

normalize_text(value) == IF value = None THEN <<>> ELSE Strip(value)

\* FieldStats(lengths=[]) and FieldStats(): keeps_lengths is
\* "lengths is not None"
FieldStats(keeps_lengths) ==
  [total |-> 0, present |-> 0, non_empty |-> 0, empty |-> 0, missing |-> 0,
   keeps_lengths |-> keeps_lengths, lengths |-> <<>>]

\* FieldStats.add with the slip of leaving out the return that follows
\* "self.missing += 1": None goes on to be counted as present
FieldStatsAddWithoutReturn(stats, type, size) ==
  IF type = "NoneType"
    THEN [stats EXCEPT !.total = @ + 1, !.missing = @ + 1, !.present = @ + 1,
                       !.non_empty = @ + 1]
  ELSE IF type = "str" /\ size > 0
    THEN [stats EXCEPT !.total = @ + 1, !.present = @ + 1, !.non_empty = @ + 1,
                       !.lengths = IF stats.keeps_lengths THEN Append(@, size)
                                   ELSE @]
  ELSE IF type \in {"str", "list", "tuple"} /\ size = 0
    THEN [stats EXCEPT !.total = @ + 1, !.present = @ + 1, !.empty = @ + 1]
  ELSE [stats EXCEPT !.total = @ + 1, !.present = @ + 1, !.non_empty = @ + 1]

\* FieldStats.add for a value of the given Python type; size is the length
\* of the stripped text for a str and the number of items for a list
FieldStatsAdd(stats, type, size) ==
  IF type = "NoneType"
    THEN [stats EXCEPT !.total = @ + 1, !.missing = @ + 1]
  ELSE IF type = "str" /\ size > 0
    THEN [stats EXCEPT !.total = @ + 1, !.present = @ + 1, !.non_empty = @ + 1,
                       !.lengths = IF stats.keeps_lengths THEN Append(@, size)
                                   ELSE @]
  ELSE IF type \in {"str", "list", "tuple"} /\ size = 0
    THEN [stats EXCEPT !.total = @ + 1, !.present = @ + 1, !.empty = @ + 1]
  ELSE [stats EXCEPT !.total = @ + 1, !.present = @ + 1, !.non_empty = @ + 1]

\* coverage[field].add(value) for a value that is a text or None
Covered(stats, value) ==
  IF value = None THEN FieldStatsAdd(stats, "NoneType", 0)
  ELSE FieldStatsAdd(stats, "str", Len(Strip(value)))

\* str.split(): the words of a text
Words(text) ==
  LET starts == {i \in 1..Len(text) :
                   /\ text[i] \notin WHITESPACE
                   /\ i = 1 \/ text[i - 1] \in WHITESPACE}
      EndOf(i) == Least({j \in i..Len(text) :
                           j = Len(text) \/ text[j + 1] \in WHITESPACE})
      Nth(n) == CHOOSE i \in starts : Cardinality({j \in starts : j < i}) = n - 1
  IN  [n \in 1..Cardinality(starts) |-> SubSeq(text, Nth(n), EndOf(Nth(n)))]

\* " ".join(description.lower().split())
NormalizedDescription(description) == Join(Words(Lower(description)), <<" ">>)

\* str.isupper(): a cased character, and no lower-case one
IsUpper(text) ==
  /\ \E k \in 1..Len(text) : text[k] \in DOMAIN LOWER_MAP
  /\ \A k \in 1..Len(text) : text[k] \notin DOMAIN UPPER_MAP

\* text[:n] + ("..." if len(text) > n else "")
Ellipsized(text, n) ==
  Prefix(text, n) \o (IF Len(text) > n THEN <<".", ".", ".">> ELSE <<>>)

\* str(record.get("metadata_filename") or record.get("metadataFilename") or "")
MetadataFilename(record) ==
  IF Truthy(Get(record, "metadata_filename")) THEN record["metadata_filename"]
  ELSE IF Truthy(Get(record, "metadataFilename")) THEN record["metadataFilename"]
  ELSE <<>>

MISSING_PREVIEW == <<"(", "m", "i", "s", "s", "i", "n", "g", ")">>

\* payload.get("preview") or payload.get("value", "")
Preview(payload) ==
  IF Truthy(Get(payload, "preview")) THEN payload["preview"]
  ELSE IF "value" \in DOMAIN payload THEN payload["value"]
  ELSE <<>>

\* a defaultdict(list) after d[key].append(item)
Listed(lists, key, item) ==
  [k \in DOMAIN lists \cup {key} |->
     IF k # key THEN lists[k]
     ELSE IF k \in DOMAIN lists THEN Append(lists[k], item)
     ELSE <<item>>]

\* record_issue with the slip of <= for < in the test of the sample limit
RecordIssueOneSampleMore(log, issue_key, metadata_filename, payload) ==
  [issues |-> Tally(log.issues, issue_key),
   issue_file |->
     Append(log.issue_file,
            Dumps(Put(Put(payload, "issue", issue_key),
                      "metadata_filename", metadata_filename))),
   issue_samples |->
     IF issue_key \in DOMAIN log.issue_samples
          /\ Len(log.issue_samples[issue_key]) > SAMPLE_LIMIT
       THEN log.issue_samples
       ELSE Listed(log.issue_samples, issue_key,
                   [metadata_filename |-> metadata_filename,
                    preview |-> Preview(payload)])]

\* record_issue: the counters, the issue log and the samples after the call
record_issue(log, issue_key, metadata_filename, payload) ==
  [issues |-> Tally(log.issues, issue_key),
   issue_file |->
     Append(log.issue_file,
            Dumps(Put(Put(payload, "issue", issue_key),
                      "metadata_filename", metadata_filename))),
   issue_samples |->
     IF issue_key \in DOMAIN log.issue_samples
          /\ Len(log.issue_samples[issue_key]) >= SAMPLE_LIMIT
       THEN log.issue_samples
       ELSE Listed(log.issue_samples, issue_key,
                   [metadata_filename |-> metadata_filename,
                    preview |-> Preview(payload)])]

\* record_issue under the condition of the statement around it
Issue(log, condition, issue_key, metadata_filename, payload) ==
  IF condition THEN record_issue(log, issue_key, metadata_filename, payload)
  ELSE log

\* the calls of record_issue in the body of the loop, in their order
RecordIssues(log, filename, description, portal_description) ==
  Issue(
    Issue(
      Issue(
        Issue(
          Issue(log,
                Len(description) > 0
                  /\ Len(description) < SHORT_DESCRIPTION_THRESHOLD,
                "short_description", filename,
                [value |-> description, length |-> Len(description)]),
          Len(description) > LONG_DESCRIPTION_THRESHOLD,
          "long_description", filename,
          [value |-> Prefix(description, LONG_VALUE_LENGTH) \o <<".", ".", ".">>,
           length |-> Len(description)]),
        Len(description) = 0,
        "missing_description", filename,
        [value |-> description, preview |-> MISSING_PREVIEW]),
      Len(portal_description) = 0,
      "missing_portal_description", filename, [preview |-> MISSING_PREVIEW]),
    Len(description) > 0 /\ IsUpper(description),
    "uppercase_description", filename,
    [value |-> Ellipsized(description, PREVIEW_LENGTH)])

\* duplicates[normalized].append(metadata_filename): the groups in the
\* order in which their text was first seen
Grouped(duplicates, normalized, filename) ==
  IF \E k \in 1..Len(duplicates) : duplicates[k].text = normalized
    THEN [k \in 1..Len(duplicates) |->
            IF duplicates[k].text = normalized
              THEN [duplicates[k] EXCEPT !.filenames = Append(@, filename)]
              ELSE duplicates[k]]
    ELSE Append(duplicates, [text |-> normalized, filenames |-> <<filename>>])

\* language_counts[field][label] += 1
LanguageCounted(counts, field, label) ==
  [f \in DOMAIN counts \cup {field} |->
     IF f # field THEN counts[f]
     ELSE Tally(IF f \in DOMAIN counts THEN counts[f] ELSE <<>>, label)]

\* the state after the body of the loop over the records, for a record
\* with this filename and these two descriptions
Audited(state, record, filename, description, portal_description) ==
  [state EXCEPT
     !.i = state.i + 1,
     !.coverage = [field \in DOMAIN state.coverage |->
                     Covered(state.coverage[field], resolve_field(record, field))],
     !.duplicates = IF Len(description) > 0
                      THEN Grouped(@, NormalizedDescription(description), filename)
                      ELSE @,
     !.log = RecordIssues(@, filename, description, portal_description),
     !.language_counts =
        LanguageCounted(
          LanguageCounted(@, "description",
                          detect_language_label(description, state.detector)),
          "portal_description",
          detect_language_label(portal_description, state.detector))]

\* list(dict.fromkeys(filenames)): the first occurrences, in their order
Deduped(filenames) ==
  LET first == {k \in 1..Len(filenames) :
                  \A j \in 1..(k - 1) : filenames[j] # filenames[k]}
      Nth(n) == CHOOSE i \in first : Cardinality({j \in first : j < i}) = n - 1
  IN  [n \in 1..Cardinality(first) |-> filenames[Nth(n)]]

\* for filename in deduped: record_issue("duplicate_description", ...)
RECURSIVE FlagAll(_, _, _, _)
FlagAll(log, preview, deduped, k) ==
  IF k > Len(deduped) THEN log
  ELSE FlagAll(record_issue(log, "duplicate_description", deduped[k],
                            [preview |-> preview, duplicates |-> deduped]),
               preview, deduped, k + 1)

\* the test of a group with the slip of ">= 1" for "> 1"
IsAnyGroup(text, filenames) == Len(text) > 0 /\ Len(filenames) >= 1

\* if text and len(filenames) > 1
IsDuplicateGroup(text, filenames) == Len(text) > 0 /\ Len(filenames) > 1

\* for text, filenames in duplicates.items(), from group k on
RECURSIVE FlagGroups(_, _, _)
FlagGroups(log, duplicates, k) ==
  IF k > Len(duplicates) THEN log
  ELSE FlagGroups(
         IF IsDuplicateGroup(duplicates[k].text, duplicates[k].filenames)
           THEN FlagAll(log, Ellipsized(duplicates[k].text, PREVIEW_LENGTH),
                        Deduped(duplicates[k].filenames), 1)
           ELSE log,
         duplicates, k + 1)

MaxAudited == 3

AuditedRecords ==
  {[metadata_filename |-> <<"a", ".", "j", "s", "o", "n">>, description |-> <<"A", " ", "B">>],
   [metadata_filename |-> <<"b", ".", "j", "s", "o", "n">>, description |-> <<"a", " ", " ", " ", "b">>],
   [metadata_filename |-> <<"c", ".", "j", "s", "o", "n">>, description |-> <<"C", " ", "D">>],
   [metadata_filename |-> <<"a", ".", "j", "s", "o", "n">>, description |-> <<"c", " ", "d">>,
    portal_record |-> [Description |-> <<"V", "u", "e", " ", "d", "e", " ", "l", "a", " ", "p", "l", "a", "c", "e", " ", "d", "'", "A", "r", "m", "e", "s", ",", " ", "M", "o", "n", "t", "r", "e_acute", "a", "l">>]],
   [metadataFilename |-> <<"b", ".", "j", "s", "o", "n">>, description |-> <<" ", "A", " ", " ", "b", " ">>,
    portalDescription |-> <<"V", "u", "e", " ", "d", "e", " ", "l", "a", " ", "p", "l", "a", "c", "e">>],
   [name |-> <<"P", "a", "r", "c">>]}

AuditedLines ==
  {[kind |-> "blank", value |-> <<>>], [kind |-> "malformed", value |-> <<>>]}
    \cup {Dumps(record) : record \in AuditedRecords}

\* the command line and the files it meets: --input given or not, the
\* path given exists or not, and the candidates of DEFAULT_INPUTS that exist
AuditArguments ==
  {[input_given |-> TRUE, input_exists |-> TRUE, defaults |-> {}],
   [input_given |-> TRUE, input_exists |-> FALSE, defaults |-> {1, 2}],
   [input_given |-> FALSE, input_exists |-> FALSE, defaults |-> {}],
   [input_given |-> FALSE, input_exists |-> FALSE, defaults |-> {2}]}

\* the input is read: the path given exists, or a candidate does
Readable(arguments) ==
  IF arguments.input_given THEN arguments.input_exists
  ELSE arguments.defaults # {}

AuditInit ==
  /\ \E arguments \in AuditArguments, detector \in DetectorOutcomes :
       \E file \in (IF Readable(arguments)
                      THEN ListsOf(AuditedLines, MaxAudited) ELSE {<<>>}) :
         au = [pc |-> "start", arguments |-> arguments, input_file |-> file,
               detector |-> detector, report_dir |-> FALSE,
               issue_exists |-> FALSE, reports |-> FALSE, report |-> <<>>,
               records |-> <<>>, i |-> 1, coverage |-> <<>>,
               language_counts |-> <<>>, duplicates |-> <<>>,
               log |-> [issues |-> <<>>, issue_file |-> <<>>,
                        issue_samples |-> <<>>],
               status |-> 0, message |-> ""]
  /\ ct = Idle /\ pd = Idle /\ nd = Idle /\ er = Idle /\ ps = Idle
  /\ lg = Idle /\ cm = Idle

\* raise SystemExit("No manifest input file found. ...")
AuditNoInput ==
  /\ au.pc = "start"
  /\ ~au.arguments.input_given /\ au.arguments.defaults = {}
  /\ au' = [au EXCEPT !.pc = "exit", !.status = 1,
                     !.message = "No manifest input file found"]
  /\ UNCHANGED <<ct, pd, nd, er, ps, lg, cm>>

\* raise SystemExit(f"Input file not found: {input_path}")
AuditInputMissing ==
  /\ au.pc = "start"
  /\ au.arguments.input_given /\ ~au.arguments.input_exists
  /\ au' = [au EXCEPT !.pc = "exit", !.status = 1,
                     !.message = "Input file not found"]
  /\ UNCHANGED <<ct, pd, nd, er, ps, lg, cm>>

\* report_dir.mkdir(...); the FieldStats of the fields; the issue log opened
AuditOpen ==
  /\ au.pc = "start" /\ Readable(au.arguments)
  /\ au' = [au EXCEPT
              !.pc = "load", !.report_dir = TRUE, !.issue_exists = TRUE,
              !.coverage = [field \in DOMAIN FIELD_PATHS |-> FieldStats(TRUE)]]
  /\ UNCHANGED <<ct, pd, nd, er, ps, lg, cm>>

\* records = list(load_records(input_path))
AuditLoad ==
  /\ au.pc = "load" /\ WellFormed(au.input_file)
  /\ au' = [au EXCEPT
              !.pc = "records", !.i = 1,
              !.records = LET lines == SelectSeq(au.input_file, IsJson)
                          IN  [k \in 1..Len(lines) |-> lines[k].value]]
  /\ UNCHANGED <<ct, pd, nd, er, ps, lg, cm>>

\* load_records raises ValueError("Failed to parse JSON on line ...")
AuditLoadFailed ==
  /\ au.pc = "load" /\ ~WellFormed(au.input_file)
  /\ au' = [au EXCEPT !.pc = "raised", !.status = 1,
                     !.message = "Failed to parse JSON"]
  /\ UNCHANGED <<ct, pd, nd, er, ps, lg, cm>>

\* one iteration of: for record in records
AuditRecord ==
  /\ au.pc = "records" /\ au.i <= Len(au.records)
  /\ au' = Audited(au, au.records[au.i], MetadataFilename(au.records[au.i]),
                   normalize_text(resolve_field(au.records[au.i], "description")),
                   normalize_text(resolve_field(au.records[au.i],
                                                "portal_description")))
  /\ UNCHANGED <<ct, pd, nd, er, ps, lg, cm>>

\* the loop over the groups of duplicates; detailed_issue_file.close()
AuditDuplicates ==
  /\ au.pc = "records" /\ au.i > Len(au.records)
  /\ au' = [au EXCEPT !.pc = "flagged",
                     !.log = FlagGroups(au.log, au.duplicates, 1)]
  /\ UNCHANGED <<ct, pd, nd, er, ps, lg, cm>>

\* the report, written as JSON, Markdown and CSV: the counters below, and
\* the percentages and length summaries computed from them
AuditReport ==
  /\ au.pc = "flagged"
  /\ au' = [au EXCEPT
              !.pc = "done", !.reports = TRUE,
              !.report = [total_records |-> Len(au.records),
                          field_coverage |-> au.coverage,
                          language_distribution |-> au.language_counts,
                          issues |-> au.log.issues,
                          issue_samples |-> au.log.issue_samples]]
  /\ UNCHANGED <<ct, pd, nd, er, ps, lg, cm>>

AuditNext ==
  \/ AuditNoInput
  \/ AuditInputMissing
  \/ AuditOpen
  \/ AuditLoad
  \/ AuditLoadFailed
  \/ AuditRecord
  \/ AuditDuplicates
  \/ AuditReport

SpecAudit == AuditInit /\ [][AuditNext]_vars

\* the description of a record as the auditor reads it
DescriptionOf(record) == normalize_text(resolve_field(record, "description"))

\* a description in lower case with every run of white space as one space
Folded(description) == Strip(CollapseWhitespace(Lower(description)))

\* the issue log holds a duplicate_description line for the record
FlaggedDuplicate(record) ==
  \E k \in 1..Len(au.log.issue_file) :
    /\ au.log.issue_file[k].value.issue = "duplicate_description"
    /\ au.log.issue_file[k].value.metadata_filename = MetadataFilename(record)
    /\ au.log.issue_file[k].value.preview
         = Ellipsized(Folded(DescriptionOf(record)), PREVIEW_LENGTH)

\* another record of the corpus has the same non-empty folded description
HasTwin(k) ==
  /\ Len(Folded(DescriptionOf(au.records[k]))) > 0
  /\ \E j \in 1..Len(au.records) :
       /\ j # k
       /\ Folded(DescriptionOf(au.records[j]))
            = Folded(DescriptionOf(au.records[k]))

\* C18: once the auditor has gone over the groups, a record is flagged
\* with duplicate_description if and only if another record of the corpus
\* has the same non-empty description up to case and white space.
C18_DuplicatesFlagged ==
  au.pc \in {"flagged", "done"}
    => \A k \in 1..Len(au.records) :
         FlaggedDuplicate(au.records[k]) <=> HasTwin(k)

\* the corpus "A B", "a   b", "C D" has been audited: the first two records
\* are flagged and the third is not
C18_Witness ==
  /\ au.pc = "done"
  /\ Len(au.records) = 3
  /\ DescriptionOf(au.records[1]) = <<"A", " ", "B">>
  /\ DescriptionOf(au.records[2]) = <<"a", " ", " ", " ", "b">>
  /\ DescriptionOf(au.records[3]) = <<"C", " ", "D">>
  /\ FlaggedDuplicate(au.records[1])
  /\ FlaggedDuplicate(au.records[2])
  /\ ~FlaggedDuplicate(au.records[3])

-----------------------------------------------------------------------------
(* a run of either program                                                 *)

RunsInit == CleanRunInit \/ AuditInit

RunsNext == CleanRunNext \/ AuditNext

SpecRuns == RunsInit /\ [][RunsNext]_vars

\* C14: a run whose input is missing ends at once with an error message
\* and a non-zero status and has created nothing: clean_metadata with an
\* input path that does not exist (no output directory, manifest or
\* summary), the auditor with an input path that does not exist or with
\* neither --input nor a default candidate (no report directory, issue log
\* or report).
C14_MissingInputFailsFast ==
  /\ (cm.pc \notin {"idle", "start"} /\ ~cm.input_exists)
       => /\ cm.pc = "exit" /\ cm.status # 0
          /\ ~cm.parent_dir /\ ~cm.output_exists /\ ~cm.summary_exists
  /\ (au.pc \notin {"idle", "start"} /\ ~Readable(au.arguments))
       => /\ au.pc = "exit" /\ au.status # 0 /\ au.message # ""
          /\ ~au.report_dir /\ ~au.issue_exists /\ ~au.reports

\* the auditor has ended for want of --input and of a default candidate
C14_Witness ==
  /\ au.pc = "exit"
  /\ ~au.arguments.input_given /\ au.arguments.defaults = {}
  /\ au.status = 1 /\ ~au.report_dir

-----------------------------------------------------------------------------
(* enrich_record: what it keeps and what it writes                         *)

\* C21: enrich_record keeps the description it was given, as it was given
\* (uncleaned, None when there was none), in raw_description, and leaves
\* the record of the caller, with its portal_record and attributes, as it
\* was.
C21_RawDescriptionKept ==
  IsEnriched
    => /\ er.cleaned.raw_description = Get(er.given, "description")
       /\ er.record = er.given

\* a record whose description and portal description both change under
\* clean_text has been enriched
C21_Witness ==
  /\ IsEnriched
  /\ "description" \in DOMAIN er.given
  /\ clean_text(er.given["description"]) # er.given["description"]
  /\ Len(Secondary(er.given)) > 0
  /\ Secondary(er.given) # er.given["portal_record"]["Description"]
  /\ er.cleaned.raw_description = er.given["description"]
  /\ er.cleaned.portal_record["Description"] = Secondary(er.given)
  /\ er.record["portal_record"] = er.given["portal_record"]

\* flag is among the quality flags that enrich_record returned
HasFlag(flag) ==
  \E k \in 1..Len(er.quality.quality_flags) : er.quality.quality_flags[k] = flag

\* C28: enrich_record never gives the flag "short-description": the final
\* description of every record, also of one without any source field, has
\* at least 50 characters.
C28_NeverShort ==
  IsEnriched
    => /\ ~HasFlag(QUALITY_FLAG.short_description)
       /\ Len(er.cleaned.description) >= SHORT_DESCRIPTION_BELOW

\* the provenance tags an output record may carry
SOURCES_WRITTEN ==
  {SOURCE_TAG.synthetic}
    \cup {base \o series \o synthetic :
            base \in {SOURCE_TAG.original, SOURCE_TAG.portal},
            series \in {<<>>, SOURCE_TAG.series_parsed},
            synthetic \in {<<>>, SOURCE_TAG.plus_synthetic}}

\* C29: the description_source that enrich_record writes is "synthetic",
\* or "original" or "portal" followed by "+series-parsed" or not and then
\* by "+synthetic" or not; "missing", "expanded-abbreviation" and
\* "portal-expanded" are never written; and the description_source of
\* metadata_quality is that of the record.
C29_SourcesWritten ==
  IsEnriched
    => /\ er.cleaned.description_source \in SOURCES_WRITTEN
       /\ er.cleaned.metadata_quality.description_source
            = er.cleaned.description_source
       /\ er.quality.description_source = er.cleaned.description_source

\* records have been enriched whose merged description carried the tag
\* "expanded-abbreviation": the tag written is "synthetic"
C29_Witness ==
  /\ IsEnriched
  /\ PrimaryIsAbbreviation(er.given)
  /\ er.cleaned.description_source = SOURCE_TAG.synthetic

\* the auditor records uppercase_description for a record with this
\* description
AuditorSeesUppercase(description) ==
  "uppercase_description" \in DOMAIN
    RecordIssues([issues |-> <<>>, issue_file |-> <<>>, issue_samples |-> <<>>],
                 <<>>, normalize_text(description), <<>>).issues

\* C30: enrich_record gives the flag "uppercase-description" to a final
\* description exactly when the auditor records uppercase_description for
\* that description, also when it holds digits and punctuation only.
C30_UppercaseAgreed ==
  IsEnriched
    => (HasFlag(QUALITY_FLAG.uppercase_description)
          <=> AuditorSeesUppercase(er.cleaned.description))

-----------------------------------------------------------------------------
(* normalize_dates.py: the counters and the output of the pass             *)

\* the records that the four counters have counted
OutcomesCounted ==
  nd.already_has_date + nd.extracted_date + nd.no_date_source + nd.parse_failed

\* record k without its date_value
WithoutDateValue(record) == [f \in DOMAIN record \ {"date_value"} |-> record[f]]

\* C27: in the date pass every record adds to exactly one of the four
\* counters, so that after the loop they sum to the number of records read;
\* the output, when it is written, holds as many records as were read, in
\* the order read; a dry run writes no output file.
C27_OutcomesPartition ==
  /\ nd.pc \in {"loop", "done"}
       => /\ OutcomesCounted = nd.i - 1
          /\ Len(nd.records) = Len(nd.input_file)
  /\ nd.pc = "done" => OutcomesCounted = Len(nd.input_file)
  /\ nd.output_written
       => /\ ~nd.dry_run
          /\ Len(nd.output_file) = Len(nd.input_file)
          /\ \A k \in 1..Len(nd.input_file) :
               /\ nd.output_file[k] = NormalizeRecord(nd.input_file[k]).record
               /\ WithoutDateValue(nd.output_file[k])
                    = WithoutDateValue(nd.input_file[k])
  /\ nd.dry_run => ~nd.output_written /\ nd.output_file = <<>>

\* the output is written for two records or more that differ and had
\* different outcomes, one of them without a date source
C27_Witness ==
  /\ nd.pc = "done" /\ nd.output_written
  /\ Len(nd.input_file) >= 2
  /\ nd.input_file[1] # nd.input_file[2]
  /\ nd.no_date_source = 1 /\ nd.extracted_date = 1
  /\ OutcomesCounted = Len(nd.output_file)

-----------------------------------------------------------------------------
(* heuristic_language_guess over texts with markers of both languages      *)

HeuristicWords ==
  {<<"T", "h", "e", " ">>,
   <<"E_acute">>,
   <<" ", "a", "n", "d">>,
   <<" ", "m", "o", "n", "t", "r", "e_acute", "a", "l">>,
   <<"S", "T", "R", "E", "E", "T">>,
   <<"r", "u", "e", " ">>}

HeuristicTexts == Joined(HeuristicWords, MaxWords)

HeuristicInit ==
  /\ \E value \in HeuristicTexts :
       lg = [pc |-> "value", value |-> value, french_markers |-> 0,
             english_markers |-> 0, label |-> ""]
  /\ ct = Idle /\ pd = Idle /\ nd = Idle /\ er = Idle /\ ps = Idle
  /\ cm = Idle /\ au = Idle

\* the call heuristic_language_guess(value): its two sums and its result
HeuristicLanguageGuess ==
  /\ lg.pc = "value"
  /\ LET lower == Lower(lg.value)
         french_markers == MarkerCount(lower, FRENCH_MARKERS)
         english_markers == MarkerCount(lower, ENGLISH_MARKERS)
     IN  lg' = [lg EXCEPT !.pc = "guessed",
                          !.french_markers = french_markers,
                          !.english_markers = english_markers,
                          !.label = Guess(french_markers, english_markers)]
  /\ UNCHANGED <<ct, pd, nd, er, ps, cm, au>>

SpecHeuristic == HeuristicInit /\ [][HeuristicLanguageGuess]_vars

\* C25: heuristic_language_guess returns "fr" exactly when it counted more
\* markers of French than of English and at least one, "en" exactly when
\* it counted more markers of English and at least one, and "unknown"
\* whenever the two counts are equal, both zero included.
C25_GuessByCount ==
  lg.pc = "guessed"
    => /\ lg.label = "fr"
            <=> (lg.french_markers > lg.english_markers
                   /\ lg.french_markers >= 1)
       /\ lg.label = "en"
            <=> (lg.english_markers > lg.french_markers
                   /\ lg.english_markers >= 1)
       /\ lg.french_markers = lg.english_markers => lg.label = "unknown"
       /\ lg.label = heuristic_language_guess(lg.value)

\* a text with as many markers of French as of English, two of each, has
\* been guessed "unknown"
C25_Witness ==
  /\ lg.pc = "guessed"
  /\ lg.french_markers = 2 /\ lg.english_markers = 2
  /\ lg.label = "unknown"

-----------------------------------------------------------------------------
(* normalize_dates.py: years of two digits                                 *)

\* the month name of a stripped text between its first lead characters
\* and the separator before its last two, without the dot of an
\* abbreviation
MonthNamed(text, lead) ==
  LET written == SubSeq(text, lead + 1, Len(text) - 3)
  IN  Lower(IF written[Len(written)] = "."
              THEN SubSeq(written, 1, Len(written) - 1) ELSE written)

\* text is a month that FRENCH_MONTHS holds, a separator and two digits,
\* after lead characters that are nothing or a day and a separator
EndsInShortYear(text, lead) ==
  /\ Len(text) >= lead + 4
  /\ text[Len(text)] \in DIGITS /\ text[Len(text) - 1] \in DIGITS
  /\ text[Len(text) - 2] \in {"-", " "}
  /\ FrenchMonth(MonthNamed(text, lead)) # None
  /\ lead > 0 => /\ text[lead] \in {"-", " "}
                 /\ \A k \in 1..(lead - 1) : text[k] \in DIGITS

\* day-month-year or abbreviated month-year, with a year of two digits
IsShortYearDate(text) == \E lead \in {0, 2, 3} : EndsInShortYear(text, lead)

\* C23: parse_date reads a year of two digits as 1900 + value: for every
\* day-month-year and abbreviated month-year text with a month of
\* FRENCH_MONTHS and a year yy from 00 to 99 the result is the four digits
\* of 1900 + yy, never a year from 2000 to 2099.
C23_TwoDigitYearIs1900s ==
  (pd.pc = "returned" /\ pd.date_str # None
     /\ IsShortYearDate(Strip(pd.date_str)))
    => LET text == Strip(pd.date_str)
           yy == ToInt(SubSeq(text, Len(text) - 1, Len(text)))
       IN  /\ pd.result = ToStr(1900 + yy)
           /\ pd.result = <<"1", "9">> \o SubSeq(text, Len(text) - 1, Len(text))

\* "AOÛT-07" has been parsed to "1907"
C23_Witness ==
  /\ pd.pc = "returned"
  /\ pd.date_str = <<"A", "O", "U_circ", "T", "-", "0", "7">>
  /\ pd.result = <<"1", "9", "0", "7">>

-----------------------------------------------------------------------------
(* resolve_field over records that hold a field under several of its paths *)

\* a record holds portalDescription, portal_description, portal_record and
\* credits, each absent or with one of a few values, null and the empty
\* text among them
ResolvedParts ==
  <<{<<>>, [portalDescription |-> None], [portalDescription |-> <<>>],
     [portalDescription |-> <<"V", "u", "e">>]},
    {<<>>, [portal_description |-> <<>>],
     [portal_description |-> <<"R", "u", "e">>]},
    {<<>>, [portal_record |-> <<>>],
     [portal_record |-> [Description |-> <<>>]],
     [portal_record |-> [Description |-> <<"P", "a", "r", "c">>]],
     [portal_record |-> [Titre |-> <<"P", "o", "n", "t">>,
                         Mention_de_credits |-> <<"V", "M">>]]},
    {<<>>, [credits |-> <<>>]}>>

ResolvedRecords ==
  {Merge(Merge(a, b), Merge(c, d)) :
     a \in ResolvedParts[1], b \in ResolvedParts[2],
     c \in ResolvedParts[3], d \in ResolvedParts[4]}

\* three fields of FIELD_PATHS and one that it does not list
ResolvedFields == {"portal_description", "portal_title", "credits", "portalDescription"}

ResolveInit ==
  /\ \E record \in ResolvedRecords, field \in ResolvedFields :
       au = [pc |-> "resolve", record |-> record, field |-> field,
             value |-> None]
  /\ ct = Idle /\ pd = Idle /\ nd = Idle /\ er = Idle /\ ps = Idle
  /\ lg = Idle /\ cm = Idle

\* the call resolve_field(record, field)
ResolveField ==
  /\ au.pc = "resolve"
  /\ au' = [au EXCEPT !.pc = "resolved",
                      !.value = resolve_field(au.record, au.field)]
  /\ UNCHANGED <<ct, pd, nd, er, ps, lg, cm>>

SpecResolve == ResolveInit /\ [][ResolveField]_vars

\* the paths of a field, in the order of FIELD_PATHS
PathsOf(field) ==
  IF field \in DOMAIN FIELD_PATHS THEN FIELD_PATHS[field] ELSE << <<field>> >>

\* C24: resolve_field takes the paths of a field in the order of
\* FIELD_PATHS and returns the value of the first that is present (not
\* None) whatever the later paths hold, also when that value is the empty
\* text and a later path holds text; it returns None only when every
\* path is absent.
C24_FirstPresentWins ==
  au.pc = "resolved"
    => LET paths == PathsOf(au.field)
           at(k) == ResolvePath(au.record, paths[k])
       IN  /\ \A k \in 1..Len(paths) :
                (at(k) # None /\ \A j \in 1..(k - 1) : at(j) = None)
                  => au.value = at(k)
           /\ au.value = None <=> \A k \in 1..Len(paths) : at(k) = None

\* portal_description has been resolved to the empty text of
\* portalDescription for a record whose portal_record holds a Description
C24_Witness ==
  /\ au.pc = "resolved" /\ au.field = "portal_description"
  /\ "portalDescription" \in DOMAIN au.record
  /\ au.record["portalDescription"] = <<>>
  /\ "portal_record" \in DOMAIN au.record
  /\ Truthy(ResolvePath(au.record, <<"portal_record", "Description">>))
  /\ au.value = <<>>

-----------------------------------------------------------------------------
(* FieldStats.add over values of every kind                                *)

MaxAdds == 4

\* the values added, by Python type and size: None, "  ", "Vue", "Métro",
\* [], ["a", "b"], (), 0 and {}
AddedValues ==
  {[type |-> "NoneType", size |-> 0],
   [type |-> "str", size |-> 0],
   [type |-> "str", size |-> 3],
   [type |-> "str", size |-> 5],
   [type |-> "list", size |-> 0],
   [type |-> "list", size |-> 2],
   [type |-> "tuple", size |-> 0],
   [type |-> "int", size |-> 0],
   [type |-> "dict", size |-> 0]}

\* FieldStats(lengths=[]) as main builds it for the description, and
\* FieldStats() as it builds it for the other fields
FieldStatsInit ==
  /\ \E keeps_lengths \in BOOLEAN :
       au = [pc |-> "stats", stats |-> FieldStats(keeps_lengths), adds |-> 0]
  /\ ct = Idle /\ pd = Idle /\ nd = Idle /\ er = Idle /\ ps = Idle
  /\ lg = Idle /\ cm = Idle

\* one call stats.add(value)
FieldStatsAddValue ==
  /\ au.pc = "stats" /\ au.adds < MaxAdds
  /\ \E value \in AddedValues :
       au' = [au EXCEPT !.adds = @ + 1,
                        !.stats = FieldStatsAdd(@, value.type, value.size)]
  /\ UNCHANGED <<ct, pd, nd, er, ps, lg, cm>>

SpecFieldStats == FieldStatsInit /\ [][FieldStatsAddValue]_vars

\* C26: after any calls of FieldStats.add, with None, strings, lists and
\* other values, total = present + missing, present = non_empty + empty,
\* and no more lengths are recorded than non_empty counts.
C26_CountersAddUp ==
  au.pc = "stats"
    => /\ au.stats.total = au.stats.present + au.stats.missing
       /\ au.stats.present = au.stats.non_empty + au.stats.empty
       /\ Len(au.stats.lengths) <= au.stats.non_empty
       /\ au.stats.total = au.adds

\* None, an empty value, a text and a value that is no text have been
\* added to statistics that record lengths: one length for two non-empty
C26_Witness ==
  /\ au.pc = "stats" /\ au.stats.keeps_lengths
  /\ au.stats.missing = 1 /\ au.stats.empty = 1 /\ au.stats.non_empty = 2
  /\ Len(au.stats.lengths) = 1

-----------------------------------------------------------------------------
(* record_issue called more often than SAMPLE_LIMIT for one key            *)

MaxIssues == 27

MaxOtherIssues == 2

\* the payloads of two of the calls in main, by issue key
IssuePayloads ==
  [short_description |-> [value |-> <<"V", "u", "e">>, length |-> 3],
   missing_description |-> [value |-> <<>>, preview |-> MISSING_PREVIEW]]

\* how often a key may be recorded: the first passes SAMPLE_LIMIT
IssueLimit == [short_description |-> MaxIssues,
               missing_description |-> MaxOtherIssues]

\* Counter and defaultdict(list): the entry of a key, or the default
CountOf(counter, key) == IF key \in DOMAIN counter THEN counter[key] ELSE 0

ListOf(lists, key) == IF key \in DOMAIN lists THEN lists[key] ELSE <<>>

\* issues, the open issue log and issue_samples before the first record
IssuesInit ==
  /\ au = [pc |-> "issues", calls |-> 0,
           log |-> [issues |-> <<>>, issue_file |-> <<>>,
                    issue_samples |-> <<>>]]
  /\ ct = Idle /\ pd = Idle /\ nd = Idle /\ er = Idle /\ ps = Idle
  /\ lg = Idle /\ cm = Idle

\* one call record_issue(issue_key, metadata_filename, payload), for the
\* record with the number of the call as its file name
RecordIssue ==
  /\ au.pc = "issues"
  /\ \E issue_key \in DOMAIN IssuePayloads :
       /\ CountOf(au.log.issues, issue_key) < IssueLimit[issue_key]
       /\ au' = [au EXCEPT
                   !.calls = @ + 1,
                   !.log = record_issue(@, issue_key, ToStr(au.calls + 1),
                                        IssuePayloads[issue_key])]
  /\ UNCHANGED <<ct, pd, nd, er, ps, lg, cm>>

SpecIssues == IssuesInit /\ [][RecordIssue]_vars

\* the lines of the issue log for a key, in the order written
LinesOf(issue_file, key) ==
  SelectSeq(issue_file, LAMBDA line : line.value.issue = key)

\* C22: after any calls of record_issue, for every issue key the count of
\* the key is the number of lines written to the issue log for it, its
\* samples are min(count, 25) many, and they are the first 25 occurrences
\* in the order of detection.
C22_SamplesAreFirst ==
  au.pc = "issues"
    => \A key \in DOMAIN IssuePayloads :
         LET lines == LinesOf(au.log.issue_file, key)
             samples == ListOf(au.log.issue_samples, key)
         IN  /\ CountOf(au.log.issues, key) = Len(lines)
             /\ Len(samples) = Min(Len(lines), SAMPLE_LIMIT)
             /\ \A k \in 1..Len(samples) :
                  /\ samples[k].metadata_filename
                       = lines[k].value.metadata_filename
                  /\ samples[k].preview = Preview(lines[k].value)

\* short_description has been recorded 27 times, with two other issues
\* among its first occurrences: 25 samples are kept for it
C22_Witness ==
  /\ au.pc = "issues"
  /\ CountOf(au.log.issues, "short_description") = SAMPLE_LIMIT + 2
  /\ CountOf(au.log.issues, "missing_description") = 2
  /\ au.log.issue_file[2].value.issue = "missing_description"
  /\ Len(au.log.issue_samples["short_description"]) = SAMPLE_LIMIT
  /\ au.log.issue_samples["short_description"][SAMPLE_LIMIT].metadata_filename
       = <<"2", "6">>

====
